---- MODULE Spec2Model ----
(***************************************************************************)
(* Model of n8n-nodes-webaccess: URL validation, the content acquisition   *)
(* fallback chain, deterministic extraction, the agent loop with its       *)
(* tools, and the per-URL operation handlers driven by execute.            *)
(***************************************************************************)
EXTENDS Integers, Sequences, FiniteSets, TLC

VARIABLES
    acq,                \* the acquireContent call in progress / last returned
    agentPc,            \* position of executeAgent
    agentOptions,       \* executeAgent: options and the ToolContext built from them
    maxIterations,      \* executeAgent: const maxIterations
    iteration,          \* executeAgent: loop variable
    scratchpad,         \* executeAgent: ScratchpadEntry[]
    accumulatedContent, \* executeAgent: Map<string, AcquiredContent>
    llmCalls,           \* executeAgent: let llmCalls
    totalCost,          \* executeAgent: let totalCost (in cost units per call)
    agentResult,        \* AgentResult returned by executeAgent
    toolCall,           \* executeTool: the ToolCall being executed
    agentLog,           \* observation of the run: requests issued, tool results
    ext,                \* the tryNonLlmExtraction call: its arguments and its result
    pr,                 \* the extractProductsFromHtml call: its arguments, loop and result
    em,                 \* the extractEmails call: its argument, its Set and its result
    cp,                 \* a crawlForProducts call: its candidates, loop and result
    ins,                \* one page inspected by crawlForContact: page, result, locals
    br,                 \* puppeteer.ts under concurrent runs: browsers and callers
    batch,              \* execute: credentials, node parameters and input items
    ex,                 \* execute: loop position, detected operation, returnItems
    op,                 \* processUrl and the operation handler it dispatched to
    fc,                 \* handleFetchContent: stage, html/text, result
    cr,                 \* handleCrawl / crawlForContact / crawlForProducts locals
    net,                \* observation: the requests issued to external services
    browserInstance     \* puppeteer.ts: the singleton browser (TRUE: one is held)

agentVars == <<agentPc, agentOptions, maxIterations, iteration, scratchpad, accumulatedContent,
               llmCalls, totalCost, agentResult, toolCall, agentLog>>

execVars == <<batch, ex, op, fc, cr, net, browserInstance>>

sideVars == <<cp, ins, br>>

extVars == <<ext, pr, em, sideVars>>

vars == <<acq, agentVars, extVars, execVars>>


(***************************************************************************)
(* Strings are modelled as sequences of one-character strings wherever the *)
(* code inspects their characters (host names against the blocked          *)
(* patterns).                                                              *)
(***************************************************************************)
DigitSet == {"0", "1", "2", "3", "4", "5", "6", "7", "8", "9"}

RECURSIVE DecimalChars(_)
DecimalChars(n) ==
    LET digits == <<"0", "1", "2", "3", "4", "5", "6", "7", "8", "9">> IN
    IF n < 10 THEN <<digits[n + 1]>>
    ELSE DecimalChars(n \div 10) \o <<digits[(n % 10) + 1]>>

StartsWith(s, p) ==
    /\ Len(s) >= Len(p)
    /\ \A i \in 1..Len(p) : s[i] = p[i]

ToLower(s) ==
    LET lower(c) == CASE c = "L" -> "l"
                      [] c = "O" -> "o"
                      [] c = "C" -> "c"
                      [] c = "A" -> "a"
                      [] c = "H" -> "h"
                      [] c = "S" -> "s"
                      [] c = "T" -> "t"
                      [] OTHER -> c
    IN [i \in 1..Len(s) |-> lower(s[i])]

(***************************************************************************)
(* URLs.  A URL is the text the caller passes; the model keeps the parts   *)
(* that new URL(url) separates: the protocol and the host, the host being  *)
(* a DNS name, a dotted IPv4 address or a bracketed IPv6 literal.          *)
(***************************************************************************)
NameLocalhost == <<"l", "o", "c", "a", "l", "h", "o", "s", "t">>

\* the empty string, and a string new URL() cannot parse
EmptyUrl == [wellFormed |-> FALSE, empty |-> TRUE, protocol |-> "",
             host |-> [kind |-> "none", octets |-> <<>>, name |-> <<>>]]
GarbageUrl == [wellFormed |-> FALSE, empty |-> FALSE, protocol |-> "",
               host |-> [kind |-> "none", octets |-> <<>>, name |-> <<>>]]

UrlA == [wellFormed |-> TRUE, empty |-> FALSE, protocol |-> "https:",
         host |-> [kind |-> "name", octets |-> <<>>,
                   name |-> <<"e", "x", "a", "m", "p", "l", "e", ".", "c", "o", "m">>]]
UrlB == [wellFormed |-> TRUE, empty |-> FALSE, protocol |-> "https:",
         host |-> [kind |-> "name", octets |-> <<>>,
                   name |-> <<"s", "h", "o", "p", ".", "i", "o">>]]
\* a URL validateUrl rejects
UrlPrivate == [wellFormed |-> TRUE, empty |-> FALSE, protocol |-> "http:",
               host |-> [kind |-> "ipv4", octets |-> <<10, 0, 0, 1>>, name |-> <<>>]]

Urls ==
    LET ipv4 == {[kind |-> "ipv4", octets |-> <<a, b, 0, d>>, name |-> <<>>] :
                    a \in {0, 8, 10, 11, 127, 172, 192},
                    b \in {0, 15, 16, 31, 32, 168},
                    d \in {0, 1}}
        names == {[kind |-> "name", octets |-> <<>>, name |-> n] :
                    n \in {NameLocalhost,
                           <<"L", "O", "C", "A", "L", "H", "O", "S", "T">>,
                           UrlA.host.name, UrlB.host.name}}
        ipv6 == {[kind |-> "ipv6", octets |-> <<>>, name |-> n] :
                    n \in {<<":", ":", "1">>, <<"2", "0", "0", "1", ":", ":", "1">>}}
    IN {[wellFormed |-> TRUE, empty |-> FALSE, protocol |-> p, host |-> h] :
            p \in {"http:", "https:", "ftp:", "file:"}, h \in ipv4 \cup names \cup ipv6}
       \cup {EmptyUrl, GarbageUrl}

ALLOWED_PROTOCOLS == {"http:", "https:"}

BLOCKED_URL_PATTERNS ==
    <<"^127\\.", "^localhost", "^0\\.0\\.0\\.0", "^::1", "^192\\.168\\.", "^10\\.",
      "^172\\.(1[6-9]|2[0-9]|3[0-1])\\.">>

\* pattern.test(hostname) for the patterns of BLOCKED_URL_PATTERNS
PatternTest(pattern, s) ==
    CASE pattern = "^127\\." -> StartsWith(s, <<"1", "2", "7", ".">>)
      [] pattern = "^localhost" -> StartsWith(s, NameLocalhost)
      [] pattern = "^0\\.0\\.0\\.0" -> StartsWith(s, <<"0", ".", "0", ".", "0", ".", "0">>)
      [] pattern = "^::1" -> StartsWith(s, <<":", ":", "1">>)
      [] pattern = "^192\\.168\\." -> StartsWith(s, <<"1", "9", "2", ".", "1", "6", "8", ".">>)
      [] pattern = "^10\\." -> StartsWith(s, <<"1", "0", ".">>)
      [] pattern = "^172\\.(1[6-9]|2[0-9]|3[0-1])\\." ->
            /\ StartsWith(s, <<"1", "7", "2", ".">>)
            /\ Len(s) >= 7
            /\ \/ s[5] = "1" /\ s[6] \in {"6", "7", "8", "9"}
               \/ s[5] = "2" /\ s[6] \in DigitSet
               \/ s[5] = "3" /\ s[6] \in {"0", "1"}
            /\ s[7] = "."
      [] OTHER -> FALSE

validateUrl(url) ==
    LET h == url.host
        \* URL.hostname: lowercased name, dotted decimal IPv4, IPv6 literal in brackets
        hostname ==
            CASE h.kind = "ipv4" ->
                    DecimalChars(h.octets[1]) \o <<".">> \o DecimalChars(h.octets[2]) \o <<".">>
                    \o DecimalChars(h.octets[3]) \o <<".">> \o DecimalChars(h.octets[4])
              [] h.kind = "ipv6" -> <<"[">> \o h.name \o <<"]">>
              [] OTHER -> ToLower(h.name)
    IN
    IF url.empty THEN [valid |-> FALSE, error |-> "URL must be a non-empty string"]
    ELSE IF ~url.wellFormed THEN [valid |-> FALSE, error |-> "Invalid URL format"]
    ELSE IF url.protocol \notin ALLOWED_PROTOCOLS
        THEN [valid |-> FALSE, error |-> "Protocol is not allowed"]
    ELSE IF \E i \in 1..Len(BLOCKED_URL_PATTERNS) :
                PatternTest(BLOCKED_URL_PATTERNS[i], hostname)
        THEN [valid |-> FALSE, error |-> "URL matches blocked pattern (localhost or private IP)"]
    ELSE [valid |-> TRUE, error |-> ""]

(***************************************************************************)
(* Stage 1: acquireContent.  The transports are external; what one call of *)
(* httpFetch, flareSolverrFetch or getPageContent produces is drawn from   *)
(* the outcomes that function can produce.                                 *)
(***************************************************************************)
Methods == {"http", "flaresolverr", "puppeteer"}

\* StrategyResult of httpFetch / flareSolverrFetch: they catch their own errors
Outcome(success, html, text, error) ==
    [throws |-> FALSE, success |-> success, html |-> html, text |-> text, error |-> error]

\* what the transport of `method' can answer: httpFetch and flareSolverrFetch return a
\* StrategyResult, getPageContent returns {html, text} or throws
TransportOutcomes(method) ==
    CASE method = "http" ->
            { Outcome(TRUE, "<html>", "text", ""),
              Outcome(FALSE, "<html>", "",
                      "Content appears to be blocked (CAPTCHA, rate limit, etc.)"),
              Outcome(FALSE, "", "", "HTTP error") }
      [] method = "flaresolverr" ->
            { Outcome(TRUE, "<html>", "text", ""),
              Outcome(FALSE, "", "", "FlareSolverr error") }
      [] OTHER ->
            { Outcome(TRUE, "<html>", "text", ""),
              Outcome(TRUE, "", "", ""),
              [Outcome(FALSE, "", "", "Navigation timeout") EXCEPT !.throws = TRUE] }

AcquiredContent(url, html, text, method, success, error) ==
    [url |-> url, html |-> html, text |-> text, method |-> method,
     success |-> success, error |-> error]

OrElse(s, d) == IF s # "" THEN s ELSE d

tryMethod(url, method, flareSolverrUrl, result) ==
    IF method = "flaresolverr" /\ ~flareSolverrUrl
        THEN AcquiredContent(url, "", "", "flaresolverr", FALSE, "FlareSolverr URL not configured")
    ELSE IF result.throws
        THEN AcquiredContent(url, "", "", method, FALSE, OrElse(result.error, "Unknown error"))
    ELSE IF method = "puppeteer"
        THEN AcquiredContent(url, result.html, result.text, "puppeteer", TRUE, "")
    ELSE IF result.success /\ result.html # ""
        THEN AcquiredContent(url, result.html, result.text, method, TRUE, "")
    ELSE AcquiredContent(url, result.html, result.text, method, FALSE,
            OrElse(result.error, IF method = "http" THEN "HTTP fetch returned no content"
                                 ELSE "FlareSolverr returned no content"))

NoContent == AcquiredContent(GarbageUrl, "", "", "http", FALSE, "")

AcqIdle ==
    [pc |-> "idle", url |-> GarbageUrl,
     options |-> [flareSolverrUrl |-> FALSE, skipFlareSolverr |-> FALSE,
                  skipPuppeteer |-> FALSE, preferredMethod |-> "unset"],
     tried |-> <<>>, content |-> NoContent, caller |-> "none"]

\* acq after the stage `from' did not return: the next stage the options allow, or
\* the final failure
Advance(a, from, tried) ==
    LET pm == a.options.preferredMethod
        stage3 == IF ~a.options.skipPuppeteer /\ pm # "puppeteer" THEN "puppeteer" ELSE "failed"
        stage2 == IF ~a.options.skipFlareSolverr /\ a.options.flareSolverrUrl
                    THEN "flaresolverr" ELSE stage3
        stage1 == IF pm # "http" THEN "http" ELSE stage3
        next == CASE from = "preferred" -> stage1
                  [] from = "http" -> stage2
                  [] OTHER -> stage3
    IN IF next = "failed"
        THEN [a EXCEPT !.pc = "done", !.tried = tried,
                       !.content = AcquiredContent(a.url, "", "", "http", FALSE,
                                                   "All acquisition methods failed")]
        ELSE [a EXCEPT !.pc = next, !.tried = tried]

\* entry of acquireContent, up to its first await
acquireContent(url, options, caller) ==
    LET a == [pc |-> "start", url |-> url, options |-> options, tried |-> <<>>,
              content |-> NoContent, caller |-> caller]
        v == validateUrl(url)
    IN IF ~v.valid
        THEN [a EXCEPT !.pc = "done",
                       !.content = AcquiredContent(url, "", "", "http", FALSE,
                                                   OrElse(v.error, "Invalid URL"))]
       ELSE IF options.preferredMethod # "unset"
        THEN [a EXCEPT !.pc = "preferred"]
       ELSE Advance(a, "preferred", <<>>)

\* getBrowser as the page functions getPageContent, captureScreenshot and
\* runPageScript call it before their try block: the instance held is reused,
\* otherwise the browser that puppeteer.launch answers is kept.  When the page
\* function threw, the launch may be what failed, and browserInstance is then left
\* as it was
getBrowser(threw) ==
    browserInstance' \in (IF threw THEN {browserInstance, TRUE} ELSE {TRUE})

\* a closeBrowser that leaves the instance as it is
closeBrowserSkipped == UNCHANGED browserInstance

\* closeBrowser: the instance held, if any, is closed and forgotten
closeBrowser == browserInstance' = FALSE

TryStageNoStop(stage, result) ==
    LET method == IF acq.pc = "preferred" THEN acq.options.preferredMethod ELSE acq.pc
        r == tryMethod(acq.url, method, acq.options.flareSolverrUrl, result)
        tried == IF method # "flaresolverr" \/ acq.options.flareSolverrUrl
                    THEN Append(acq.tried, [method |-> method, success |-> r.success])
                    ELSE acq.tried
    IN /\ acq.pc = stage
       /\ acq' = IF (r.success /\ stage # "http") \/ stage = "puppeteer"
                    THEN [acq EXCEPT !.pc = "done", !.tried = tried, !.content = r]
                    ELSE Advance(acq, stage, tried)

\* one stage of acquireContent: `await tryMethod(...)' and what follows it; the
\* attempt is recorded when tryMethod reaches the transport at all
TryStage(stage, result) ==
    LET method == IF acq.pc = "preferred" THEN acq.options.preferredMethod ELSE acq.pc
        r == tryMethod(acq.url, method, acq.options.flareSolverrUrl, result)
        tried == IF method # "flaresolverr" \/ acq.options.flareSolverrUrl
                    THEN Append(acq.tried, [method |-> method, success |-> r.success])
                    ELSE acq.tried
    IN /\ acq.pc = stage
       /\ acq' = IF r.success \/ stage = "puppeteer"
                    THEN [acq EXCEPT !.pc = "done", !.tried = tried, !.content = r]
                    ELSE Advance(acq, stage, tried)

TryPreferred ==
    /\ acq.pc = "preferred"
    /\ \E result \in TransportOutcomes(acq.options.preferredMethod) :
        /\ TryStage("preferred", result)
        /\ IF acq.options.preferredMethod = "puppeteer" THEN getBrowser(result.throws)
           ELSE UNCHANGED browserInstance
    /\ UNCHANGED <<agentVars, extVars, batch, ex, op, fc, cr, net>>

TryHttp ==
    /\ \E result \in TransportOutcomes("http") : TryStage("http", result)
    /\ UNCHANGED <<agentVars, extVars, execVars>>

TryFlareSolverr ==
    /\ \E result \in TransportOutcomes("flaresolverr") : TryStage("flaresolverr", result)
    /\ UNCHANGED <<agentVars, extVars, execVars>>

TryPuppeteer ==
    /\ \E result \in TransportOutcomes("puppeteer") :
        /\ TryStage("puppeteer", result)
        /\ getBrowser(result.throws)
    /\ UNCHANGED <<agentVars, extVars, batch, ex, op, fc, cr, net>>

\* a caller outside the agent (Stage 1 of the pipeline) starts an acquisition
AcquireCall ==
    /\ acq.pc = "idle"
    /\ op.pc = "idle"
    /\ \E url \in Urls, options \in [flareSolverrUrl : BOOLEAN, skipFlareSolverr : BOOLEAN,
                                        skipPuppeteer : BOOLEAN,
                                        preferredMethod : Methods \cup {"unset"}] :
            acq' = acquireContent(url, options, "stage1")
    /\ UNCHANGED <<agentVars, extVars, execVars>>

(***************************************************************************)
(* Stage 3: executeAgent, its tools and the forced completion.             *)
(***************************************************************************)
MaxIterationsOption == 2

DefaultMaxIterations == 5

CostPerCall == 1

\* the URLs the LLM may name in a tool call; EmptyUrl is a missing url parameter
AgentUrls == {UrlA, UrlB, UrlPrivate, EmptyUrl}

\* Map<string, AcquiredContent>, kept in insertion order as a JS Map is
MapHas(m, url) == \E i \in 1..Len(m) : m[i].url = url

MapSet(m, url, c) ==
    IF MapHas(m, url)
        THEN [i \in 1..Len(m) |-> IF m[i].url = url THEN c ELSE m[i]]
        ELSE Append(m, c)

AgentResult(success, text, iterations, calls, cost, error) ==
    [returned |-> TRUE, success |-> success, text |-> text, iterations |-> iterations,
     llmCalls |-> calls,
     sources |-> [i \in 1..Len(accumulatedContent) |-> accumulatedContent[i].url],
     estimatedCost |-> cost, error |-> error]

ToolResult(tool, url, success, alreadyScraped, acquired) ==
    [tool |-> tool, url |-> url, success |-> success, alreadyScraped |-> alreadyScraped,
     acquired |-> acquired]

\* buildUserPrompt: the guidance that follows the line `ITERATION: i of max'
IterationGuidance(i) ==
    IF i <= 2 THEN "Early stage"
    ELSE IF i <= 4 THEN "Middle stage"
    ELSE "FINAL ITERATION"

\* llmRequests: chat-completion requests issued; loopCalls: those issued by the loop;
\* completeCalls: complete actions parsed; lastTool: the last ToolResult, with
\* whether the tool went to the network for it; guidance: the iteration guidance of
\* the last prompt the loop built
AgentLogInit ==
    [llmRequests |-> 0, loopCalls |-> 0, completeCalls |-> 0,
     lastTool |-> ToolResult("none", GarbageUrl, FALSE, FALSE, FALSE),
     guidance |-> "none"]

AgentIdle ==
    /\ agentPc = "idle"
    /\ agentOptions = [maxIterations |-> 0, flareSolverrUrl |-> FALSE,
                       crawl4aiBaseUrl |-> FALSE, initialContent |-> NoContent]
    /\ maxIterations = DefaultMaxIterations
    /\ iteration = 1
    /\ scratchpad = <<>>
    /\ accumulatedContent = <<>>
    /\ llmCalls = 0
    /\ totalCost = 0
    /\ agentResult = [AgentResult(FALSE, "", 0, 0, 0, "") EXCEPT
                        !.returned = FALSE, !.sources = <<>>]
    /\ toolCall = [tool |-> "none", url |-> GarbageUrl]
    /\ agentLog = AgentLogInit

\* forcedCompletion: the synthesis, or buildFallbackSummary when the request fails,
\* is not ok or answers with nothing
ForcedOutcomes == {"synthesis", "empty", "notOk", "error"}

buildFallbackSummary(content) == "Task: ... Found information from page(s): ..."

forcedCompletionNoFallback(outcome, content) ==
    IF outcome = "synthesis" THEN "synthesized answer"
    ELSE IF outcome = "empty" THEN "" ELSE buildFallbackSummary(content)

forcedCompletion(outcome, content) ==
    IF outcome = "synthesis" THEN "synthesized answer" ELSE buildFallbackSummary(content)

LoopHeadOffByOne ==
    /\ agentPc = "loop"
    /\ llmCalls' = llmCalls + 1
    /\ totalCost' = totalCost + CostPerCall
    /\ agentLog' = [agentLog EXCEPT !.llmRequests = @ + 1,
                        !.loopCalls = IF iteration <= maxIterations + 1 THEN @ + 1 ELSE @,
                        !.guidance = IF iteration <= maxIterations + 1
                                     THEN IterationGuidance(iteration) ELSE @]
    /\ agentPc' = IF iteration <= maxIterations + 1 THEN "callLLM" ELSE "forced"
    /\ UNCHANGED <<acq, toolCall, agentOptions, maxIterations, iteration, scratchpad,
                   accumulatedContent, agentResult>>
    /\ UNCHANGED <<extVars, execVars>>

\* loop head: the test iteration <= maxIterations, then either the iteration's
\* request to the LLM (lines 312-327) or the forced completion's (lines 393-396)
LoopHead ==
    /\ agentPc = "loop"
    /\ llmCalls' = llmCalls + 1
    /\ totalCost' = totalCost + CostPerCall
    /\ agentLog' = [agentLog EXCEPT !.llmRequests = @ + 1,
                        !.loopCalls = IF iteration <= maxIterations THEN @ + 1 ELSE @,
                        !.guidance = IF iteration <= maxIterations
                                     THEN IterationGuidance(iteration) ELSE @]
    /\ agentPc' = IF iteration <= maxIterations THEN "callLLM" ELSE "forced"
    /\ UNCHANGED <<acq, toolCall, agentOptions, maxIterations, iteration, scratchpad,
                   accumulatedContent, agentResult>>
    /\ UNCHANGED <<extVars, execVars>>

PushAndRetry(thinking, tool, result) ==
    /\ scratchpad' = Append(scratchpad, [iteration |-> iteration, thinking |-> thinking,
                                         tool |-> tool, result |-> result])
    /\ iteration' = iteration
    /\ agentPc' = "loop"

\* scratchpad.push(...) at the end of an iteration, then iteration++
PushAndContinue(thinking, tool, result) ==
    /\ scratchpad' = Append(scratchpad, [iteration |-> iteration, thinking |-> thinking,
                                         tool |-> tool, result |-> result])
    /\ iteration' = iteration + 1
    /\ agentPc' = "loop"

Return(result) ==
    /\ agentResult' = result
    /\ agentPc' = "done"

LLMFailsBestEffort ==
    /\ agentPc = "callLLM"
    /\ Return(AgentResult(FALSE, buildFallbackSummary(accumulatedContent), Len(scratchpad),
                          llmCalls, totalCost, "LLM API error"))
    /\ UNCHANGED <<acq, toolCall, agentOptions, maxIterations, iteration, scratchpad,
                   accumulatedContent, llmCalls, totalCost, agentLog>>
    /\ UNCHANGED <<extVars, execVars>>

\* callLLM throws: non-2xx response, timeout or network error
LLMFails ==
    /\ agentPc = "callLLM"
    \* catch (error) of executeAgent (lines 406-416)
    /\ Return(AgentResult(FALSE, "", Len(scratchpad), llmCalls, totalCost, "LLM API error"))
    /\ UNCHANGED <<acq, toolCall, agentOptions, maxIterations, iteration, scratchpad,
                   accumulatedContent, llmCalls, totalCost, agentLog>>
    /\ UNCHANGED <<extVars, execVars>>

LLMUnparseableNoEntry ==
    /\ agentPc = "callLLM"
    /\ iteration' = iteration + 1
    /\ agentPc' = "loop"
    /\ UNCHANGED <<acq, toolCall, agentOptions, maxIterations, accumulatedContent, llmCalls,
                   totalCost, agentResult, agentLog, scratchpad>>
    /\ UNCHANGED <<extVars, execVars>>

\* parseLLMResponse returns null
LLMUnparseable ==
    /\ agentPc = "callLLM"
    /\ PushAndContinue("Failed to parse response", "error", "Invalid response format")
    /\ UNCHANGED <<acq, toolCall, agentOptions, maxIterations, accumulatedContent, llmCalls,
                   totalCost, agentResult, agentLog>>
    /\ UNCHANGED <<extVars, execVars>>

\* action complete with a non-blank string result
LLMComplete ==
    /\ agentPc = "callLLM"
    /\ Return(AgentResult(TRUE, "final answer", iteration, llmCalls, totalCost, ""))
    /\ agentLog' = [agentLog EXCEPT !.completeCalls = @ + 1]
    /\ UNCHANGED <<acq, toolCall, agentOptions, maxIterations, iteration, scratchpad,
                   accumulatedContent, llmCalls, totalCost>>
    /\ UNCHANGED <<extVars, execVars>>

LLMCompleteEmptyReturned ==
    /\ agentPc = "callLLM"
    /\ Return(AgentResult(TRUE, "", iteration, llmCalls, totalCost, ""))
    /\ agentLog' = [agentLog EXCEPT !.completeCalls = @ + 1]
    /\ UNCHANGED <<acq, toolCall, agentOptions, maxIterations, iteration, scratchpad,
                   accumulatedContent, llmCalls, totalCost>>
    /\ UNCHANGED <<extVars, execVars>>

\* an empty complete whose forced synthesis is requested without being counted
LLMCompleteEmptyUncounted ==
    /\ agentPc = "callLLM"
    /\ agentLog' = [agentLog EXCEPT !.llmRequests = @ + 1, !.completeCalls = @ + 1]
    /\ agentPc' = "forcedEmpty"
    /\ UNCHANGED <<acq, toolCall, agentOptions, maxIterations, iteration, scratchpad,
                   accumulatedContent, agentResult, llmCalls, totalCost>>
    /\ UNCHANGED <<extVars, execVars>>

\* action complete whose result is missing, empty or blank: forced synthesis
LLMCompleteEmpty ==
    /\ agentPc = "callLLM"
    /\ llmCalls' = llmCalls + 1
    /\ totalCost' = totalCost + CostPerCall
    /\ agentLog' = [agentLog EXCEPT !.llmRequests = @ + 1, !.completeCalls = @ + 1]
    /\ agentPc' = "forcedEmpty"
    /\ UNCHANGED <<acq, toolCall, agentOptions, maxIterations, iteration, scratchpad,
                   accumulatedContent, agentResult>>
    /\ UNCHANGED <<extVars, execVars>>

\* action complete whose result is a truthy non-string (a number, an object):
\* result.trim is not a function, caught by the catch of executeAgent
LLMCompleteNonString ==
    /\ agentPc = "callLLM"
    /\ Return(AgentResult(FALSE, "", Len(scratchpad), llmCalls, totalCost,
                          "result.trim is not a function"))
    /\ agentLog' = [agentLog EXCEPT !.completeCalls = @ + 1]
    /\ UNCHANGED <<acq, toolCall, agentOptions, maxIterations, iteration, scratchpad,
                   accumulatedContent, llmCalls, totalCost>>
    /\ UNCHANGED <<extVars, execVars>>

\* forcedCompletion returns after an empty complete (lines 351-359)
ForcedAfterEmpty ==
    /\ agentPc = "forcedEmpty"
    /\ \E outcome \in ForcedOutcomes :
            Return(AgentResult(TRUE, forcedCompletion(outcome, accumulatedContent),
                               iteration, llmCalls, totalCost, ""))
    /\ UNCHANGED <<acq, toolCall, agentOptions, maxIterations, iteration, scratchpad,
                   accumulatedContent, llmCalls, totalCost, agentLog>>
    /\ UNCHANGED <<extVars, execVars>>

\* forcedCompletion returns after the loop ran out (lines 396-405)
ForcedAtMax ==
    /\ agentPc = "forced"
    /\ \E outcome \in ForcedOutcomes :
            Return(AgentResult(TRUE, forcedCompletion(outcome, accumulatedContent),
                               maxIterations, llmCalls, totalCost, ""))
    /\ UNCHANGED <<acq, toolCall, agentOptions, maxIterations, iteration, scratchpad,
                   accumulatedContent, llmCalls, totalCost, agentLog>>
    /\ UNCHANGED <<extVars, execVars>>

\* the tool returned: the scratchpad entry of lines 381-388
ToolDone(result) ==
    /\ PushAndContinue("parsed", result.tool, IF result.success THEN "data" ELSE "Error")
    /\ toolCall' = [tool |-> "none", url |-> GarbageUrl]

AlreadyScrapedNever(url) == FALSE

\* context.acquiredContent.has(url) (tools.ts line 162)
AlreadyScraped(url) == MapHas(accumulatedContent, url)

\* executeScrapeTool up to `await acquireContent' (tools.ts lines 150-179)
LLMScrape ==
    /\ agentPc = "callLLM"
    \* param: the values the LLM may give the method parameter of scrape_url
    /\ \E url \in AgentUrls, param \in Methods \cup {"unset", "curl"} :
        LET method == IF param = "unset" THEN "http" ELSE param
            counted == agentLog
        IN IF url = EmptyUrl \/ method \notin Methods
            THEN /\ ToolDone(ToolResult("scrape_url", url, FALSE, FALSE, FALSE))
                 /\ agentLog' = [counted EXCEPT
                        !.lastTool = ToolResult("scrape_url", url, FALSE, FALSE, FALSE)]
                 /\ UNCHANGED <<acq, accumulatedContent>>
           ELSE IF AlreadyScraped(url)
            THEN /\ ToolDone(ToolResult("scrape_url", url, TRUE, TRUE, FALSE))
                 /\ agentLog' = [counted EXCEPT
                        !.lastTool = ToolResult("scrape_url", url, TRUE, TRUE, FALSE)]
                 /\ UNCHANGED <<acq, accumulatedContent>>
           ELSE /\ acq' = acquireContent(url,
                            [flareSolverrUrl |-> agentOptions.flareSolverrUrl,
                             skipFlareSolverr |-> FALSE, skipPuppeteer |-> FALSE,
                             preferredMethod |-> method], "scrape")
                /\ toolCall' = [tool |-> "scrape_url", url |-> url]
                /\ agentPc' = "scrape"
                /\ agentLog' = counted
                /\ UNCHANGED <<accumulatedContent, scratchpad, iteration>>
    /\ UNCHANGED <<agentOptions, maxIterations, llmCalls, totalCost, agentResult>>
    /\ UNCHANGED <<extVars, execVars>>

\* acquireContent returned to executeScrapeTool (tools.ts lines 181-197)
ScrapeReturn ==
    /\ agentPc = "scrape"
    /\ acq.pc = "done"
    /\ acq.caller = "scrape"
    /\ LET content == acq.content
           url == toolCall.url
           result == ToolResult("scrape_url", url, content.success, FALSE, acq.tried # <<>>)
       IN /\ accumulatedContent' = IF content.success
                                    THEN MapSet(accumulatedContent, url, content)
                                    ELSE accumulatedContent
          /\ agentLog' = [agentLog EXCEPT
                !.lastTool = result]
          /\ ToolDone(result)
    /\ acq' = AcqIdle
    /\ UNCHANGED <<agentOptions, maxIterations, llmCalls, totalCost, agentResult>>
    /\ UNCHANGED <<extVars, execVars>>

CrawlNoFallback(url) ==
    /\ ToolDone(ToolResult("crawl_links", url, FALSE, FALSE, FALSE))
    /\ agentLog' = [agentLog EXCEPT
            !.lastTool = ToolResult("crawl_links", url, FALSE, FALSE, FALSE)]
    /\ UNCHANGED <<acq, accumulatedContent>>

\* executeCrawlLinksTool from the fallback on (tools.ts lines 236-265): the page
\* is taken from the map, or has to be acquired first
CrawlFallback(url) ==
    IF MapHas(accumulatedContent, url)
        THEN LET content ==
                    accumulatedContent[CHOOSE i \in 1..Len(accumulatedContent) :
                                            accumulatedContent[i].url = url]
                 result == ToolResult("crawl_links", url, content.html # "", FALSE, FALSE)
             IN /\ ToolDone(result)
                /\ agentLog' = [agentLog EXCEPT !.lastTool = result]
                /\ UNCHANGED <<acq, accumulatedContent>>
        ELSE /\ acq' = acquireContent(url,
                        [flareSolverrUrl |-> agentOptions.flareSolverrUrl,
                         skipFlareSolverr |-> FALSE, skipPuppeteer |-> FALSE,
                         preferredMethod |-> "unset"], "crawl")
             /\ toolCall' = [tool |-> "crawl_links", url |-> url]
             /\ agentPc' = "crawlAcquire"
             /\ UNCHANGED <<accumulatedContent, scratchpad, iteration, agentLog>>

\* executeCrawlLinksTool up to its first await (tools.ts lines 207-239)
LLMCrawlLinks ==
    /\ agentPc = "callLLM"
    /\ \E url \in AgentUrls :
        IF url = EmptyUrl
            THEN /\ ToolDone(ToolResult("crawl_links", url, FALSE, FALSE, FALSE))
                 /\ agentLog' = [agentLog EXCEPT
                        !.lastTool = ToolResult("crawl_links", url, FALSE, FALSE, FALSE)]
                 /\ UNCHANGED <<acq, accumulatedContent>>
        ELSE IF agentOptions.crawl4aiBaseUrl
            THEN /\ toolCall' = [tool |-> "crawl_links", url |-> url]
                 /\ agentPc' = "crawl4ai"
                 /\ UNCHANGED <<acq, accumulatedContent, scratchpad, iteration, agentLog>>
        ELSE CrawlFallback(url)
    /\ UNCHANGED <<agentOptions, maxIterations, llmCalls, totalCost, agentResult>>
    /\ UNCHANGED <<extVars, execVars>>

\* crawl4aiCrawl returned pages, returned none, or threw (tools.ts lines 217-234)
Crawl4aiReturn ==
    /\ agentPc = "crawl4ai"
    /\ \E outcome \in {"pages", "none", "throws"} :
        IF outcome = "pages"
            THEN /\ ToolDone(ToolResult("crawl_links", toolCall.url, TRUE, FALSE, FALSE))
                 /\ agentLog' = [agentLog EXCEPT
                        !.lastTool = ToolResult("crawl_links", toolCall.url, TRUE, FALSE, FALSE)]
                 /\ UNCHANGED <<acq, accumulatedContent>>
            ELSE CrawlFallback(toolCall.url)
    /\ UNCHANGED <<agentOptions, maxIterations, llmCalls, totalCost, agentResult>>
    /\ UNCHANGED <<extVars, execVars>>

\* acquireContent returned to executeCrawlLinksTool (tools.ts lines 240-265)
CrawlAcquireReturn ==
    /\ agentPc = "crawlAcquire"
    /\ acq.pc = "done"
    /\ acq.caller = "crawl"
    /\ LET content == acq.content
           url == toolCall.url
           result == ToolResult("crawl_links", url, content.html # "", FALSE, acq.tried # <<>>)
       IN /\ accumulatedContent' = IF content.success
                                    THEN MapSet(accumulatedContent, url, content)
                                    ELSE accumulatedContent
          /\ agentLog' = [agentLog EXCEPT !.lastTool = result]
          /\ ToolDone(result)
    /\ acq' = AcqIdle
    /\ UNCHANGED <<agentOptions, maxIterations, llmCalls, totalCost, agentResult>>
    /\ UNCHANGED <<extVars, execVars>>

\* executeTool default branch: Unknown tool
LLMUnknownTool ==
    /\ agentPc = "callLLM"
    /\ ToolDone(ToolResult("unknown", GarbageUrl, FALSE, FALSE, FALSE))
    /\ agentLog' = [agentLog EXCEPT
            !.lastTool = ToolResult("unknown", GarbageUrl, FALSE, FALSE, FALSE)]
    /\ UNCHANGED <<acq, agentOptions, maxIterations, accumulatedContent, llmCalls,
                   totalCost, agentResult>>
    /\ UNCHANGED <<extVars, execVars>>

(***************************************************************************)
(* Task descriptions.  A task is the text the user typed; the functions    *)
(* that read it (detectIntent, inferOperationKeyword, inferTaskIntent) look *)
(* for substrings and match regular expressions, so a task is a string and *)
(* both are computed on its characters.                                    *)
(***************************************************************************)
\* String.prototype.toLowerCase, on the letters A to Z
UpperToLower ==
    LET upper == <<"A", "B", "C", "D", "E", "F", "G", "H", "I", "J", "K", "L", "M",
                   "N", "O", "P", "Q", "R", "S", "T", "U", "V", "W", "X", "Y", "Z">>
        lower == <<"a", "b", "c", "d", "e", "f", "g", "h", "i", "j", "k", "l", "m",
                   "n", "o", "p", "q", "r", "s", "t", "u", "v", "w", "x", "y", "z">>
    IN [c \in {upper[i] : i \in DOMAIN upper} |->
            lower[CHOOSE i \in DOMAIN upper : upper[i] = c]]


RECURSIVE toLowerCase(_)
toLowerCase(s) ==
    IF Len(s) = 0 THEN ""
    ELSE (IF SubSeq(s, 1, 1) \in DOMAIN UpperToLower THEN UpperToLower[SubSeq(s, 1, 1)]
          ELSE SubSeq(s, 1, 1)) \o toLowerCase(SubSeq(s, 2, Len(s)))

\* String.prototype.trim
RECURSIVE trim(_)
trim(s) ==
    IF Len(s) = 0 THEN s
    ELSE IF SubSeq(s, 1, 1) = " " THEN trim(SubSeq(s, 2, Len(s)))
    ELSE IF SubSeq(s, Len(s), Len(s)) = " " THEN trim(SubSeq(s, 1, Len(s) - 1))
    ELSE s

\* s.substring starting at i equals p
SubAt(s, p, i) == i + Len(p) - 1 <= Len(s) /\ SubSeq(s, i, i + Len(p) - 1) = p

\* String.prototype.includes
includes(s, p) == \E i \in 1..(Len(s) + 1) : SubAt(s, p, i)

includesAny(s, ps) == \E p \in ps : includes(s, p)

(***************************************************************************)
(* Regular expressions.  A pattern is a sequence of elements: a word       *)
(* boundary, an alternation of literals, an optional literal, or a        *)
(* repeated character class: spaces, digits, or any character.             *)
(***************************************************************************)
\* the elements without a parameter: \b, \s+, \s*, \d+, \d and .*
Re ==
    [b |-> [kind |-> "b"],
     spaces1 |-> [kind |-> "class", any |-> FALSE, chars |-> {" "}, min |-> 1, single |-> FALSE],
     spaces0 |-> [kind |-> "class", any |-> FALSE, chars |-> {" "}, min |-> 0, single |-> FALSE],
     digits1 |-> [kind |-> "class", any |-> FALSE, chars |-> DigitSet, min |-> 1, single |-> FALSE],
     digit |-> [kind |-> "class", any |-> FALSE, chars |-> DigitSet, min |-> 1, single |-> TRUE],
     any0 |-> [kind |-> "class", any |-> TRUE, chars |-> {}, min |-> 0, single |-> FALSE]]

\* (w1|w2|...), a literal and an optional literal
ReAlt(ws) == [kind |-> "alt", words |-> ws]

\* the characters of \w
WordChars ==
    DOMAIN UpperToLower \cup {UpperToLower[c] : c \in DOMAIN UpperToLower}
    \cup DigitSet \cup {"_"}

RECURSIVE MatchFrom(_, _, _, _)
MatchFrom(re, k, s, i) ==
    IF k > Len(re) THEN TRUE
    ELSE LET e == re[k]
             isWordCharAt(j) == j >= 1 /\ j <= Len(s) /\ SubSeq(s, j, j) \in WordChars
         IN
        \* \b lies between the characters i-1 and i
        CASE e.kind = "b" ->
                isWordCharAt(i - 1) # isWordCharAt(i) /\ MatchFrom(re, k + 1, s, i)
          [] e.kind = "alt" ->
                \E w \in e.words : SubAt(s, w, i) /\ MatchFrom(re, k + 1, s, i + Len(w))
          [] OTHER ->
                \E n \in e.min..(Len(s) - i + 1) :
                    /\ e.single => n = 1
                    /\ \A j \in i..(i + n - 1) : e.any \/ SubSeq(s, j, j) \in e.chars
                    /\ MatchFrom(re, k + 1, s, i + n)

\* RegExp.prototype.test of an unanchored pattern
RegexTest(re, s) == \E i \in 1..(Len(s) + 1) : MatchFrom(re, 1, s, i)

\* the words tasks are made of, and the tasks: up to MaxTaskWords words
MaxTaskWords == 2

RECURSIVE TasksOfLength(_)
TasksOfLength(n) ==
    LET words == {"Email", "phone", "products", "text", "screenshot", "download",
                  "summary", "then", "click", "all", "hello", "what?"}
    IN IF n = 1 THEN words
       ELSE {t \o " " \o w : t \in TasksOfLength(n - 1), w \in words}

(***************************************************************************)
(* Stage 2: detectIntent and tryNonLlmExtraction.                          *)
(***************************************************************************)
detectIntent(task) ==
    LET lowerTask == trim(toLowerCase(task))
        wantsEmail == includesAny(lowerTask, {"email", "e-mail", "contact", "mailto"})
        wantsPhone ==
            includesAny(lowerTask, {"phone", "telephone", "call", "mobile", "number"})
        wantsProducts ==
            includesAny(lowerTask,
                {"product", "item", "catalog", "price", "shop", "store", "buy"})
        wantsText ==
            includesAny(lowerTask, {"text", "content", "article", "read", "extract"})
        wantsScreenshot ==
            includesAny(lowerTask, {"screenshot", "capture", "image of", "picture of"})
        wantsDownload == includesAny(lowerTask, {"download", "pdf", "file", "save"})
        isResearch ==
            includesAny(lowerTask,
                {"research", "learn about", "tell me about", "information about",
                 "details", "overview", "summary"})
        isComplexTask ==
            \/ RegexTest(<<Re.b, ReAlt({"then"}), Re.b>>, lowerTask)
            \/ RegexTest(<<Re.b, ReAlt({"and"}), Re.spaces1, ReAlt({"then"}), Re.b>>, lowerTask)
            \/ RegexTest(<<Re.b, ReAlt({"first"}), Re.b, Re.any0, Re.b, ReAlt({"then"}), Re.b>>,
                         lowerTask)
            \/ RegexTest(<<Re.b, ReAlt({"after"}), Re.b, Re.any0, Re.b,
                           ReAlt({"do", "get", "extract"}), Re.b>>, lowerTask)
            \* (lowerTask.match(/,/g) || []).length >= 2
            \/ Cardinality({i \in 1..Len(lowerTask) : SubSeq(lowerTask, i, i) = ","}) >= 2
            \/ RegexTest(<<Re.b, ReAlt({"step", "steps"}), Re.spaces0, Re.digit>>, lowerTask)
            \/ RegexTest(<<Re.b, ReAlt({"all"}), Re.b, Re.any0, Re.b, ReAlt({"from"}), Re.b, Re.any0,
                           Re.b, ReAlt({"page"}), Re.b>>, lowerTask)
        requiresNavigation ==
            \/ includesAny(lowerTask,
                   {"pagination", "next page", "next button", "follow", "navigate",
                    "click", "page 2", "page 3"})
            \/ RegexTest(<<Re.b, ReAlt({"page"}), Re.spaces1, Re.digits1, Re.b>>, lowerTask)
            \/ RegexTest(<<Re.b, ReAlt({"page"}), ReAlt({"s", ""}), Re.spaces1, Re.digits1, Re.spaces0,
                           ReAlt({"to", "-"}), Re.spaces0, Re.digits1, Re.b>>, lowerTask)
        wantsStructuredData ==
            \/ RegexTest(<<Re.b, ReAlt({"with"}), Re.spaces1, ReAlt({"their", "the", "its"}),
                           Re.b>>, lowerTask)
            \/ RegexTest(<<Re.b, ReAlt({"and", "with"}), Re.spaces1,
                           ReAlt({"author", "tag", "price", "name", "date", "title"}),
                           ReAlt({"s", ""}), Re.b>>, lowerTask)
            \/ RegexTest(<<Re.b, Re.digits1, Re.spaces1,
                           ReAlt({"quote", "item", "product", "record", "result"}),
                           ReAlt({"s", ""}), Re.b>>, lowerTask)
            \/ RegexTest(<<Re.b, ReAlt({"all"}), Re.spaces1,
                           ReAlt({"quote", "item", "product", "record", "result", "link"}),
                           ReAlt({"s", ""}), Re.b>>, lowerTask)
    IN  [wantsEmail |-> wantsEmail,
         wantsPhone |-> wantsPhone,
         wantsProducts |-> wantsProducts,
         wantsText |-> wantsText,
         wantsScreenshot |-> wantsScreenshot,
         wantsDownload |-> wantsDownload,
         isResearch |-> isResearch,
         isGeneral |-> ~wantsEmail /\ ~wantsPhone /\ ~wantsProducts /\ ~wantsText
                       /\ ~wantsScreenshot /\ ~wantsDownload /\ ~isResearch
                       /\ ~isComplexTask /\ ~requiresNavigation /\ ~wantsStructuredData,
         isComplexTask |-> isComplexTask,
         requiresNavigation |-> requiresNavigation,
         wantsStructuredData |-> wantsStructuredData]

\* The content handed to Stage 2.  Its html and text are what the extractors of
\* utils/extraction read; the model keeps, for each extractor, what it returns on
\* them: title is extractPageTitle(html), emails extractEmails(html), products
\* extractProductsFromHtml(html), htmlText extractTextContent(html) and phones
\* extractPhones(text).  Every extractor returns nothing on an empty input.
ExtractContents ==
    {c \in [htmlEmpty : BOOLEAN, title : {"", "Title"},
            emails : {<<>>, <<"info@example.com">>},
            products : {<<>>, <<"product">>},
            htmlText : {"", "body text"},
            text : {"", "page text"},
            phones : {<<>>, <<"5551234567">>}] :
        /\ c.htmlEmpty =>
                c.title = "" /\ c.emails = <<>> /\ c.products = <<>> /\ c.htmlText = ""
        \* the text of the document holds the text of its title
        /\ c.htmlText = "" => c.title = ""
        /\ c.text = "" => c.phones = <<>>}

\* ExtractionData: the fields that are set, and their values
EmptyData ==
    [null |-> FALSE, has |-> {}, title |-> "", emails |-> <<>>, phones |-> <<>>,
     products |-> <<>>, text |-> ""]

SetField(data, field, value) ==
    [data EXCEPT !.has = @ \cup {field}, ![field] = value]

ExtractionAttempt(success, data, whatWasTried, reason, intent) ==
    [success |-> success, data |-> data, whatWasTried |-> whatWasTried,
     reason |-> reason, detectedIntent |-> intent]

LlmOnlyReasonWithoutResearch(intent, task) ==
    IF intent.isComplexTask THEN "Complex multi-step task requires LLM orchestration"
    ELSE IF intent.requiresNavigation
        THEN "Task requires navigation/pagination which needs LLM agent"
    ELSE IF intent.wantsStructuredData
        THEN "Structured data extraction with relationships requires LLM"
    ELSE IF intent.isGeneral /\ includes(task, "?")
        THEN "Question-based task requires LLM to answer"
    ELSE ""

\* the reason the task is left to the LLM whatever was extracted, "" if it is not
LlmOnlyReason(intent, task) ==
    IF intent.isComplexTask THEN "Complex multi-step task requires LLM orchestration"
    ELSE IF intent.requiresNavigation
        THEN "Task requires navigation/pagination which needs LLM agent"
    ELSE IF intent.wantsStructuredData
        THEN "Structured data extraction with relationships requires LLM"
    ELSE IF intent.isResearch THEN "Research task requires LLM synthesis of content"
    ELSE IF intent.isGeneral /\ includes(task, "?")
        THEN "Question-based task requires LLM to answer"
    ELSE ""

\* the extraction block of tryNonLlmExtraction: data, foundData and whatWasTried
ExtractByDetectedIntent(content, intent) ==
    LET broad == intent.isResearch \/ intent.isGeneral
        \* if (wanted) { const found = extract(..); if (found.length > 0) { data[field] =
        \* found; foundData = true }; whatWasTried.push(label) }
        tryField(s, wanted, field, found, label) ==
            IF wanted
            THEN [data |-> IF Len(found) > 0 THEN SetField(s.data, field, found) ELSE s.data,
                  found |-> s.found \/ Len(found) > 0,
                  tried |-> Append(s.tried, label)]
            ELSE s
        s0 == [data |-> SetField(EmptyData, "title", content.title),
               found |-> FALSE, tried |-> <<"page_title_extraction">>]
        s1 == tryField(s0, intent.wantsEmail \/ broad, "emails", content.emails,
                       "email_regex_extraction")
        s2 == tryField(s1, intent.wantsPhone \/ broad, "phones", content.phones,
                       "phone_regex_extraction")
        s3 == tryField(s2, intent.wantsProducts, "products", content.products,
                       "product_dom_extraction")
        s4 == tryField(s3, intent.wantsText, "text", content.htmlText,
                       "text_content_extraction")
        \* the text added for a research or general task
        withText(s) ==
            [data |-> SetField(s.data, "text",
                               IF content.text # "" THEN content.text ELSE content.htmlText),
             found |-> s.found,
             tried |-> Append(s.tried, "text_content_extraction")]
    IN  IF broad THEN withText(s4) ELSE s4

Lacks(data, field) == field \notin data.has \/ Len(data[field]) = 0

tryNonLlmExtraction(content, task) ==
    LET \* the body of the function once const intent = detectIntent(task) is known
        attempt(intent) ==
            LET e == ExtractByDetectedIntent(content, intent)
                data == e.data
                whatWasTried == e.tried
                nullData == [EmptyData EXCEPT !.null = TRUE]
                \* the reason a demanded kind of data is missing, "" if none is
                missingReason ==
                    IF intent.wantsEmail /\ Lacks(data, "emails")
                        THEN "No email addresses found in content"
                    ELSE IF intent.wantsPhone /\ Lacks(data, "phones")
                        THEN "No phone numbers found in content"
                    ELSE IF intent.wantsProducts /\ Lacks(data, "products")
                        THEN "No products found in content"
                    ELSE ""
            IN  IF missingReason # ""
                THEN ExtractionAttempt(FALSE, IF e.found THEN data ELSE nullData,
                                       whatWasTried, missingReason, intent)
                ELSE IF LlmOnlyReason(intent, task) # ""
                THEN ExtractionAttempt(FALSE, data, whatWasTried,
                                       LlmOnlyReason(intent, task), intent)
                ELSE IF intent.wantsScreenshot
                THEN ExtractionAttempt(FALSE, nullData, <<"intent_detection">>,
                                       "Screenshot task requires Puppeteer, not extraction",
                                       intent)
                ELSE IF intent.wantsDownload
                THEN ExtractionAttempt(FALSE, nullData, <<"intent_detection">>,
                        "Download task requires asset extraction, not text extraction",
                        intent)
                ELSE IF e.found
                THEN ExtractionAttempt(TRUE, data, whatWasTried,
                                       "Successfully extracted requested data", intent)
                ELSE ExtractionAttempt(FALSE, SetField(EmptyData, "text", content.text),
                        whatWasTried,
                        "Could not extract specific data, LLM needed for interpretation",
                        intent)
    IN  attempt(detectIntent(task))

NoExtractContent ==
    [htmlEmpty |-> TRUE, title |-> "", emails |-> <<>>, products |-> <<>>,
     htmlText |-> "", text |-> "", phones |-> <<>>]

ExtIdle ==
    [pc |-> "idle", content |-> NoExtractContent, task |-> "",
     result |-> ExtractionAttempt(FALSE, [EmptyData EXCEPT !.null = TRUE], <<>>, "", detectIntent(""))]

TryExtraction ==
    /\ ext.pc = "called"
    /\ ext' = [ext EXCEPT !.pc = "done",
                          !.result = tryNonLlmExtraction(ext.content, ext.task)]
    /\ UNCHANGED <<acq, agentVars, pr, em, sideVars, execVars>>

(***************************************************************************)
(* extraction.ts: extractProductsFromHtml.  A page is what cheerio finds   *)
(* in it: for each product-card selector the elements it matches, in       *)
(* document order, and for each element the href of the link chosen in it, *)
(* the name found in it and its price.  An element nested in another one   *)
(* that matches the same selector is a second element with the same link.  *)
(***************************************************************************)
productSelectors ==
    <<"[class*=product]", "[class*=item]", "[class*=card]", "[data-product]",
      "[data-item]", "article", ".grid-item", ".collection-item">>

\* the elements of the pages explored; href "" is an element without a link
MaxCards == 2

ProductCards ==
    [href : {"", "/p/1", "/p/2", "https://shop.test/p/1"}, name : {"A", "Shoe"},
     price : {"$5"}]

\* the pages explored: elements under the first selector and under 'article'
ProductPages ==
    {[s \in DOMAIN productSelectors |->
        IF productSelectors[s] = "[class*=product]" THEN cards
        ELSE IF productSelectors[s] = "article" THEN articles
        ELSE <<>>] :
        cards \in UNION {[1..n -> ProductCards] : n \in 0..MaxCards},
        articles \in UNION {[1..n -> ProductCards] : n \in 0..1}}

\* baseUrl: "" is none given, "shop" is one that new URL() rejects
BaseUrls == {"", "https://shop.test", "shop"}

\* new URL(href, baseUrl).href for an href that does not start with http
resolveHref(href, baseUrl) ==
    IF ~SubAt(baseUrl, "https://", 1) THEN [throws |-> TRUE, href |-> ""]
    ELSE IF SubAt(href, "/", 1) THEN [throws |-> FALSE, href |-> baseUrl \o href]
    ELSE [throws |-> FALSE, href |-> baseUrl \o "/" \o href]

PrIdle ==
    [pc |-> "idle", html |-> "", page |-> [s \in DOMAIN productSelectors |-> <<>>],
     baseUrl |-> "", s |-> 1, e |-> 1, seenUrls |-> {}, products |-> <<>>]

\* if (!html) return []; const products = [], seenUrls = new Set()
PrEnter ==
    /\ pr.pc = "called"
    /\ pr' = [pr EXCEPT !.pc = IF pr.html = "" THEN "returned" ELSE "each"]
    /\ UNCHANGED <<acq, agentVars, ext, em, sideVars, execVars>>

\* the callback of $(selector).each for one element
PrEach ==
    /\ pr.pc = "each"
    /\ pr.e <= Len(pr.page[pr.s])
    /\ LET card == pr.page[pr.s][pr.e]
           url == IF pr.baseUrl # "" /\ ~SubAt(card.href, "http", 1)
                  THEN resolveHref(card.href, pr.baseUrl)
                  ELSE [throws |-> FALSE, href |-> card.href]
           skipped == \/ card.href = "" \/ card.href \in pr.seenUrls
                      \/ url.throws
                      \/ Len(card.name) < 2
       IN pr' = IF skipped THEN [pr EXCEPT !.e = @ + 1]
                ELSE [pr EXCEPT !.e = @ + 1,
                                !.seenUrls = @ \cup {url.href},
                                !.products = Append(@, [name |-> card.name, url |-> url.href,
                                                        price |-> card.price])]
    /\ UNCHANGED <<acq, agentVars, ext, em, sideVars, execVars>>

\* after the elements of a selector: if (products.length > 0) break; and the return
PrSelectorDone ==
    /\ pr.pc = "each"
    /\ pr.e > Len(pr.page[pr.s])
    /\ pr' = IF Len(pr.products) > 0 \/ pr.s = Len(productSelectors)
             THEN [pr EXCEPT !.pc = "returned"]
             ELSE [pr EXCEPT !.s = @ + 1, !.e = 1]
    /\ UNCHANGED <<acq, agentVars, ext, em, sideVars, execVars>>

(***************************************************************************)
(* extraction.ts: extractEmails, computed on the characters of its input:  *)
(* the chain of replacements that decodes obfuscated addresses, the three  *)
(* searches (mailto: links, href attributes, EMAIL_REGEX), the junk        *)
(* patterns and the final filter.                                          *)
(***************************************************************************)
Letters == DOMAIN UpperToLower \cup {UpperToLower[c] : c \in DOMAIN UpperToLower}

\* the character classes of the patterns: [a-z0-9] with the flag i,
\* [a-zA-Z0-9._%+-], [a-zA-Z0-9.-], [a-f0-9] with the flag i, ["'] and
\* ["'\s<>?#]
CharClass ==
    [alnum |-> Letters \cup DigitSet,
     local |-> Letters \cup DigitSet \cup {".", "_", "%", "+", "-"},
     domain |-> Letters \cup DigitSet \cup {".", "-"},
     hex |-> DigitSet \cup {"a", "b", "c", "d", "e", "f"},
     quote |-> {"\"", "'"},
     mailtoEnd |-> {"\"", "'", " ", "<", ">", "?", "#"}]

\* the first index at or after i whose character is outside cs (inside cs when
\* neg): the end of a run matched by [cs]* or by [^cs]*
RECURSIVE RunOf(_, _, _, _)
RunOf(s, i, cs, neg) ==
    IF i <= Len(s) /\ ((SubSeq(s, i, i) \in cs) # neg) THEN RunOf(s, i + 1, cs, neg) ELSE i

\* w occurs in s at index i, and the first index at or after i where it does, 0
\* if there is none; ci is the flag i of the pattern, and with it w is in lower case
OccursAt(s, w, i, ci) ==
    /\ i + Len(w) - 1 <= Len(s)
    /\ w = IF ci THEN toLowerCase(SubSeq(s, i, i + Len(w) - 1))
             ELSE SubSeq(s, i, i + Len(w) - 1)

IndexOf(s, w, i, ci) ==
    LET found == {k \in i..(Len(s) - Len(w) + 1) : OccursAt(s, w, k, ci)}
    IN  IF found = {} THEN 0 ELSE CHOOSE k \in found : \A j \in found : k <= j

\* s.replace(/\s*w\s*/g, by) when spaced, s.replace(/w/g, by) when not
RECURSIVE replaceAll(_, _, _, _, _)
replaceAll(s, w, by, spaced, ci) ==
    LET k == IndexOf(s, w, 1, ci)
        first == IF spaced
                 THEN CHOOSE a \in 1..k :
                        /\ \A j \in a..(k - 1) : SubSeq(s, j, j) = " "
                        /\ a = 1 \/ SubSeq(s, a - 1, a - 1) # " "
                 ELSE k
        after == IF spaced THEN RunOf(s, k + Len(w), {" "}, FALSE) ELSE k + Len(w)
    IN  IF k = 0 THEN s
        ELSE SubSeq(s, 1, first - 1) \o by
             \o replaceAll(SubSeq(s, after, Len(s)), w, by, spaced, ci)

\* the replacements of the decoding chain, in the order of the code
Replacements ==
    <<[w |-> "&#64;", by |-> "@", spaced |-> FALSE, ci |-> FALSE],
      [w |-> "&#46;", by |-> ".", spaced |-> FALSE, ci |-> FALSE],
      [w |-> "&commat;", by |-> "@", spaced |-> FALSE, ci |-> FALSE],
      [w |-> "&period;", by |-> ".", spaced |-> FALSE, ci |-> FALSE],
      [w |-> "[at]", by |-> "@", spaced |-> TRUE, ci |-> TRUE],
      [w |-> "(at)", by |-> "@", spaced |-> TRUE, ci |-> TRUE],
      [w |-> "{at}", by |-> "@", spaced |-> TRUE, ci |-> TRUE],
      [w |-> "@", by |-> "@", spaced |-> TRUE, ci |-> FALSE],
      [w |-> "[dot]", by |-> ".", spaced |-> TRUE, ci |-> TRUE],
      [w |-> "(dot)", by |-> ".", spaced |-> TRUE, ci |-> TRUE],
      [w |-> "{dot}", by |-> ".", spaced |-> TRUE, ci |-> TRUE],
      [w |-> "[AT]", by |-> "@", spaced |-> TRUE, ci |-> FALSE],
      [w |-> "[DOT]", by |-> ".", spaced |-> TRUE, ci |-> FALSE]>>

\* the least index at or after i that satisfies Test, 0 if there is none
FirstFrom(s, i, Test(_, _)) ==
    LET found == {k \in i..Len(s) : Test(s, k)}
    IN  IF found = {} THEN 0 ELSE CHOOSE k \in found : \A j \in found : k <= j

\* /\bat\b/gi matches at index i, and the callback answers '@': the character
\* before the match and the one after it are letters or digits
AtWordReplaced(str, i) ==
    LET in(j, cs) == j >= 1 /\ j <= Len(str) /\ SubSeq(str, j, j) \in cs IN
    /\ OccursAt(str, "at", i, TRUE)
    /\ ~in(i - 1, WordChars) /\ ~in(i + 2, WordChars)
    /\ in(i - 1, CharClass.alnum) /\ in(i + 2, CharClass.alnum)

\* .replace(/\bat\b/gi, callback) from offset i on
RECURSIVE replaceAtWord(_, _)
replaceAtWord(str, i) ==
    LET k == FirstFrom(str, i, AtWordReplaced) IN
    IF k = 0 THEN SubSeq(str, i, Len(str))
    ELSE SubSeq(str, i, k - 1) \o "@" \o replaceAtWord(str, k + 2)

\* the k-th call of the decoding chain, the replacement of the word `at' last
decode(s, k) ==
    IF k > Len(Replacements) THEN replaceAtWord(s, 1)
    ELSE replaceAll(s, Replacements[k].w, Replacements[k].by,
                    Replacements[k].spaced, Replacements[k].ci)

\* EMAIL_REGEX at index i: the first index after its match, 0 if it does not
\* match there.  [a-zA-Z0-9._%+-]+ takes the whole run, @ follows, and
\* [a-zA-Z0-9.-]+ gives back to the last dot that two letters or more follow
EmailMatchEnd(s, i) ==
    LET at == RunOf(s, i, CharClass.local, FALSE)
        domainEnd == RunOf(s, at + 1, CharClass.domain, FALSE)
        dots == {p \in (at + 2)..(domainEnd - 1) :
                    SubSeq(s, p, p) = "." /\ RunOf(s, p + 1, Letters, FALSE) >= p + 3}
    IN  IF at > i /\ at <= Len(s) /\ SubSeq(s, at, at) = "@" /\ dots # {}
        THEN RunOf(s, (CHOOSE p \in dots : \A q \in dots : q <= p) + 1, Letters, FALSE)
        ELSE 0

\* s.match(EMAIL_REGEX) from index i on
RECURSIVE emailMatches(_, _)
emailMatches(s, i) ==
    LET k == FirstFrom(s, i, LAMBDA t, j : EmailMatchEnd(t, j) > 0) IN
    IF k = 0 THEN <<>>
    ELSE <<SubSeq(s, k, EmailMatchEnd(s, k) - 1)>> \o emailMatches(s, EmailMatchEnd(s, k))

\* the first index after the match of /mailto:([^"'\s<>?#]+)/i at index i
MailtoEnd(s, i) == RunOf(s, i + 7, CharClass.mailtoEnd, TRUE)

\* decoded.match(/mailto:([^"'\s<>?#]+)/gi) from index i on, each match without
\* its mailto: prefix (the characters ? and # that split() looks for end a match)
RECURSIVE mailtoMatches(_, _)
mailtoMatches(s, i) ==
    LET k == FirstFrom(s, i, LAMBDA t, j : OccursAt(t, "mailto:", j, TRUE)
                                              /\ MailtoEnd(t, j) > j + 7) IN
    IF k = 0 THEN <<>>
    ELSE <<SubSeq(s, k + 7, MailtoEnd(s, k) - 1)>> \o mailtoMatches(s, MailtoEnd(s, k))

\* the index of the quote that ends the match of /href=["'][^"']*@[^"']*["']/i
HrefEnd(s, i) == RunOf(s, i + 6, CharClass.quote, TRUE)

HrefMatchesAt(s, i) ==
    /\ OccursAt(s, "href=", i, TRUE)
    /\ i + 5 <= Len(s) /\ SubSeq(s, i + 5, i + 5) \in CharClass.quote
    /\ HrefEnd(s, i) <= Len(s)
    /\ includes(SubSeq(s, i + 6, HrefEnd(s, i) - 1), "@")

\* decoded.match(/href=["'][^"']*@[^"']*["']/gi) from index i on
RECURSIVE hrefMatches(_, _)
hrefMatches(s, i) ==
    LET k == FirstFrom(s, i, HrefMatchesAt) IN
    IF k = 0 THEN <<>>
    ELSE <<SubSeq(s, k, HrefEnd(s, k))>> \o hrefMatches(s, HrefEnd(s, k) + 1)

\* JUNK_EMAIL_PATTERNS, all of them with the flag i
isJunkEmail(email) ==
    LET e == toLowerCase(email) IN
    \/ Len(e) >= 33 /\ RunOf(e, 1, CharClass.hex, FALSE) >= 33
                    /\ SubSeq(e, 33, 33) = "@"
    \/ \E p \in {"@example.com", "@test.com", "@localhost", "@wixpress.com"} :
            SubAt(e, p, Len(e) - Len(p) + 1)
    \/ includesAny(e, {"noreply@", "no-reply@", "@sentry.", ".png@", ".jpg@", ".gif@"})

\* emails.add(email.toLowerCase().trim()) for the addresses of found that pass;
\* the sequence is the Set in its insertion order
RECURSIVE addEmails(_, _, _)
addEmails(emails, found, needsAtAndDot) ==
    IF found = <<>> THEN emails
    ELSE LET email == Head(found)
             value == trim(toLowerCase(email))
             passes == /\ needsAtAndDot => includes(email, "@") /\ includes(email, ".")
                       /\ ~isJunkEmail(email)
         IN addEmails(IF passes /\ \A i \in DOMAIN emails : emails[i] # value
                      THEN Append(emails, value) ELSE emails,
                      Tail(found), needsAtAndDot)

\* hrefMatches.forEach: the EMAIL_REGEX matches of each matched attribute
RECURSIVE matchesWithin(_)
matchesWithin(ms) ==
    IF ms = <<>> THEN <<>> ELSE emailMatches(Head(ms), 1) \o matchesWithin(Tail(ms))

\* the filter of the result: length, @ and ., a last label of 2 to 10 characters
RECURSIVE lastLabel(_)
lastLabel(s) ==
    IF IndexOf(s, ".", 1, FALSE) = 0 THEN s
    ELSE lastLabel(SubSeq(s, IndexOf(s, ".", 1, FALSE) + 1, Len(s)))

validEmail(email) ==
    /\ Len(email) >= 5 /\ Len(email) <= 254
    /\ includes(email, "@") /\ includes(email, ".")
    /\ Len(lastLabel(email)) >= 2 /\ Len(lastLabel(email)) <= 10

\* the addresses embedded in the pages explored, and the ways they are written
Addresses ==
    {[local |-> "info", labels |-> <<"shop", "com">>],
     [local |-> "Bob", labels |-> <<"Shop", "co", "uk">>],
     [local |-> "noreply", labels |-> <<"shop", "com">>],
     [local |-> "logo.png", labels |-> <<"cdn", "com">>],
     [local |-> "hi", labels |-> <<"studio", "photography">>]}

RECURSIVE joinLabels(_, _)
joinLabels(labels, dot) ==
    IF Len(labels) = 1 THEN labels[1]
    ELSE labels[1] \o dot \o joinLabels(Tail(labels), dot)

Written(a, at, dot) == a.local \o at \o joinLabels(a.labels, dot)

Renderings(a) ==
    {Written(a, "@", "."), Written(a, " [at] ", " [dot] "), Written(a, "&#64;", "&#46;"),
     "<a href=\"mailto:" \o Written(a, "@", ".") \o "?subject=Hi\">Mail</a>"}

MaxEmbedded == 2

\* k: the calls of the decoding chain made so far; embedded: the addresses that
\* were written into textOrHtml
EmIdle == [pc |-> "idle", textOrHtml |-> "", embedded |-> {}, decoded |-> "", k |-> 0,
           emails |-> <<>>, result |-> <<>>]

\* if (!textOrHtml) return []; const emails = new Set()
EmEnter ==
    /\ em.pc = "called"
    /\ em' = IF em.textOrHtml = "" THEN [em EXCEPT !.pc = "returned"]
             ELSE [em EXCEPT !.pc = "decode", !.decoded = em.textOrHtml]
    /\ UNCHANGED <<acq, agentVars, ext, pr, sideVars, execVars>>

\* one call of the decoding chain
EmDecode ==
    /\ em.pc = "decode"
    /\ em' = [em EXCEPT !.decoded = decode(@, em.k + 1), !.k = @ + 1,
                        !.pc = IF em.k + 1 > Len(Replacements) THEN "mailto" ELSE @]
    /\ UNCHANGED <<acq, agentVars, ext, pr, sideVars, execVars>>

EmMailto ==
    /\ em.pc = "mailto"
    /\ em' = [em EXCEPT !.pc = "href",
                        !.emails = addEmails(@, mailtoMatches(em.decoded, 1), TRUE)]
    /\ UNCHANGED <<acq, agentVars, ext, pr, sideVars, execVars>>

EmHref ==
    /\ em.pc = "href"
    /\ em' = [em EXCEPT !.pc = "standard",
                        !.emails = addEmails(@, matchesWithin(hrefMatches(em.decoded, 1)), FALSE)]
    /\ UNCHANGED <<acq, agentVars, ext, pr, sideVars, execVars>>

EmStandard ==
    /\ em.pc = "standard"
    /\ em' = [em EXCEPT !.pc = "filter",
                        !.emails = addEmails(@, emailMatches(em.decoded, 1), FALSE)]
    /\ UNCHANGED <<acq, agentVars, ext, pr, sideVars, execVars>>

EmFilter ==
    /\ em.pc = "filter"
    /\ em' = [em EXCEPT !.pc = "returned",
                        !.result = SelectSeq(em.emails, validEmail)]
    /\ UNCHANGED <<acq, agentVars, ext, pr, sideVars, execVars>>

(***************************************************************************)
(* The node: operations, task intent, what the handlers receive from the   *)
(* services they call, and the results they build.                         *)
(***************************************************************************)
Operations == {"fetchContent", "screenshot", "downloadAssets", "crawl", "runScript"}

\* the tasks given to the node
NodeTasks ==
    {"find email", "Email and phone", "extract text", "product list", "screenshot",
     "download pdf", "run script", "hello"}

inferOperationKeyword(task) ==
    LET lowerTask == trim(toLowerCase(task)) IN
    IF includesAny(lowerTask,
            {"screenshot", "screen shot", "capture", "visual", "image of the page",
             "picture of"})
        THEN "screenshot"
    ELSE IF includesAny(lowerTask,
            {"download", "get pdf", "get the pdf", "fetch pdf", "save pdf", "get image",
             "get all image", "download image", "save image", "get csv", "download csv",
             "get file", "download file"})
        THEN "downloadAssets"
    ELSE IF includesAny(lowerTask,
            {"run script", "execute script", "run javascript", "execute javascript",
             "run code", "click button", "fill form", "submit form", "interact with"})
        THEN "runScript"
    ELSE IF includesAny(lowerTask,
            {"crawl", "spider", "all pages", "entire site", "whole site",
             "across the site", "from the website", "find contact", "find email",
             "find phone", "list all products", "get all products", "product catalog",
             "product list"})
        THEN "crawl"
    ELSE "fetchContent"

\* fallbacks that list the detected operation again after its fallback
getFallbackOperationsCascade(failedOperation) ==
    CASE failedOperation = "crawl" -> <<"fetchContent", "crawl">>
      [] failedOperation = "fetchContent" -> <<"crawl", "fetchContent">>
      [] OTHER -> <<>>

getFallbackOperations(failedOperation) ==
    CASE failedOperation = "crawl" -> <<"fetchContent">>
      [] failedOperation = "fetchContent" -> <<"crawl">>
      [] OTHER -> <<>>

inferTaskIntent(task, operation) ==
    LET lowerTask == trim(toLowerCase(task))
        wantsEmail ==
            includesAny(lowerTask,
                {"email", "e-mail", "contact email", "mailto", "mail address"})
        wantsPhone ==
            includesAny(lowerTask,
                {"phone", "telephone", " tel ", " tel.", "contact number", "mobile",
                 "call us"})
        textDump ==
            /\ operation = "fetchContent"
            /\ includesAny(lowerTask,
                   {"all text", "page text", "content", "full content", "full text",
                    "extract text", "get text"})
        wantsProductList ==
            includesAny(lowerTask,
                {"product", "item", "wallet", "bag", "shoe", "watch", "catalog",
                 "catalogue", "listing", "collection"})
        forAssets == operation = "downloadAssets"
    IN  [wantsEmail |-> wantsEmail,
         wantsPhone |-> wantsPhone,
         wantsTextDump |->
            \/ textDump
            \/ /\ operation = "fetchContent"
               /\ ~wantsEmail /\ ~wantsPhone /\ ~textDump /\ ~wantsProductList,
         wantsProductList |-> wantsProductList,
         wantsPdf |-> forAssets /\ includesAny(lowerTask, {"pdf", "document"}),
         wantsImages |->
            forAssets /\ includesAny(lowerTask, {"image", "picture", "photo", "img"}),
         wantsCsv |->
            forAssets /\ includesAny(lowerTask, {"csv", "spreadsheet", "data file"})]

generateSubTask(parentTask, intent) ==
    IF intent.wantsEmail THEN "Find contact email address on this page."
    ELSE IF intent.wantsPhone THEN "Find phone number or contact number on this page."
    ELSE IF intent.wantsProductList
        THEN "List all products on this page with name, URL, and price if visible."
    ELSE parentTask

\* the pages a transport can deliver, by what the extractors find in them: a plain
\* page, one with an email address, one with a phone number, one with products, and
\* one without title and text
Pages ==
    LET plain == [htmlEmpty |-> FALSE, title |-> "Title", emails |-> <<>>,
                  products |-> <<>>, htmlText |-> "body text", text |-> "page text",
                  phones |-> <<>>]
    IN {plain,
        [plain EXCEPT !.emails = <<"info@example.com">>],
        [plain EXCEPT !.phones = <<"5551234567">>],
        [plain EXCEPT !.products = <<"product">>],
        [plain EXCEPT !.title = "", !.htmlText = "", !.text = ""]}

\* WebAccessResultJson.data: the keys set, and the values the callers read
ResultData(keys, emails, phones, products) ==
    [null |-> FALSE, keys |-> keys, emails |-> emails, phones |-> phones,
     products |-> products]

NullResultData ==
    [null |-> TRUE, keys |-> {}, emails |-> <<>>, phones |-> <<>>, products |-> <<>>]

extractByIntent(html, text, intent) ==
    LET emails == IF intent.wantsEmail THEN html.emails ELSE <<>>
        phones == IF intent.wantsPhone THEN text.phones ELSE <<>>
        dump == intent.wantsTextDump /\ text.text # ""
        products == IF intent.wantsProductList THEN html.products ELSE <<>>
        hasData == Len(emails) > 0 \/ Len(phones) > 0 \/ dump \/ Len(products) > 0
        keys == (IF Len(emails) > 0 THEN {"emails", "pageTitle"} ELSE {})
                \cup (IF Len(phones) > 0 THEN {"phones", "pageTitle"} ELSE {})
                \cup (IF dump THEN {"text", "pageTitle"} ELSE {})
                \cup (IF Len(products) > 0 THEN {"products"} ELSE {})
    IN  [success |-> hasData,
         data |-> IF hasData THEN ResultData(keys, emails, phones, products)
                  ELSE NullResultData]

\* WebAccessResultJson; meta is the set of flags set in WebAccessMeta
ResultJson(url, operation, task, success, data, error, meta) ==
    [url |-> url, operation |-> operation, task |-> task, success |-> success,
     data |-> data, error |-> error, meta |-> meta]

NoResultJson == ResultJson(GarbageUrl, "none", "", FALSE, NullResultData, "", {})

\* the parameters execute passes down: useAI, aiProvider, aiModel, openAiConfig,
\* flareSolverrUrl (aiModel and openAiConfig are read for 'openai-compatible' only)
NodeConfigs ==
    {c \in [aiProvider : {"none", "crawl4ai", "openai-compatible"}, aiModel : BOOLEAN,
            openAiConfig : BOOLEAN, flareSolverrUrl : BOOLEAN] :
        /\ c.openAiConfig <=> c.aiProvider = "openai-compatible"
        /\ c.aiModel => c.aiProvider = "openai-compatible"}

useAI(config) == config.aiProvider # "none"

NoConfig ==
    [aiProvider |-> "none", aiModel |-> FALSE, openAiConfig |-> FALSE,
     flareSolverrUrl |-> FALSE]

\* the requests observed: which services were called
LlmRequests == {"openai-chat", "crawl4ai-llm"}

Request(kind) ==
    net' = [call |-> net.call \cup {kind},
            item |-> net.item \cup ({kind} \cap LlmRequests)]

(***************************************************************************)
(* handleFetchContent.  One action per awaited call; the outcome of the    *)
(* call is drawn from what the service function can return.                *)
(***************************************************************************)
\* StrategyResult of httpFetch and flareSolverrFetch as the handlers read it
FetchOutcomes ==
    {[success |-> TRUE, page |-> p, error |-> ""] : p \in Pages \cup {NoExtractContent}}
    \cup {[success |-> FALSE, page |-> NoExtractContent, error |-> e] :
            e \in {"Page appears to be blocked or requires CAPTCHA", "HTTP 500"}}

\* StrategyResult of crawl4aiQuery: the text of the answer
\* the stages pass it as both html and text
QueryOutcomes ==
    LET TextAsPage(page) ==
            [htmlEmpty |-> page.text = "", title |-> "", emails |-> page.emails,
             products |-> <<>>, htmlText |-> page.text, text |-> page.text,
             phones |-> page.phones]
    IN  {[success |-> TRUE, page |-> TextAsPage(p)] :
            p \in {q \in Pages : q.products = <<>>}}
        \cup {[success |-> FALSE, page |-> NoExtractContent]}

FcIdle ==
    [pc |-> "idle", url |-> GarbageUrl, path |-> "", task |-> "", config |-> NoConfig,
     meta |-> {}, intent |-> inferTaskIntent("", "none"), caller |-> "none"]

\* handleFetchContent(url + path, task, useAI, ..., meta, ...) has been called
FetchCalled(url, path, task, config, meta, caller) ==
    [FcIdle EXCEPT !.pc = "enter", !.url = url, !.path = path, !.task = task,
                   !.config = config, !.meta = meta, !.caller = caller]

\* a step of the handler: it returned a result, or it goes on from frame
Returns(result) == [done |-> TRUE, result |-> result, frame |-> FcIdle]
GoesOn(frame) == [done |-> FALSE, result |-> NoResultJson, frame |-> frame]

ExtractFrom(page, text, intent) ==
    extractByIntent(page, [page EXCEPT !.text = text,
                                       !.phones = IF text = "" THEN <<>> ELSE @], intent)

AllStagesFailed(f, meta) ==
    Returns(ResultJson(f.url, "fetchContent", f.task, FALSE, NullResultData,
                        "Could not satisfy task from page content.", meta))

LlmStageAlways(config) == TRUE

\* Stage 4 is entered only if useAI is true
LlmStage(config) == useAI(config)

(***************************************************************************)
(* processUrl and the handlers it dispatches to.                           *)
(***************************************************************************)
MAX_ASSETS == 50
MAX_CRAWL_CANDIDATES == 20
MAX_PRODUCTS == 100

\* what the model lets one page hold and one crawl discover
MaxPageAssets == 1
MaxCrawledPages == 2

OpIdle ==
    [pc |-> "idle", operation |-> "none", url |-> GarbageUrl, task |-> "",
     config |-> NoConfig, meta |-> {}, assets |-> 0, pages |-> 0, downloaded |-> 0,
     result |-> NoResultJson]

\* processUrl(context) has been called
ProcessUrlCalled(url, operation, task, config) ==
    [OpIdle EXCEPT !.pc = "called", !.url = url, !.operation = operation, !.task = task,
                   !.config = config]

OpReturn(o, result) == [o EXCEPT !.pc = "returned", !.result = result]

\* a failure result without its error string
OpFailNoError(o, error, meta) ==
    OpReturn(o, ResultJson(o.url, o.operation, o.task, FALSE, NullResultData, "", meta))

OpFail(o, error, meta) == OpReturn(o, ResultJson(o.url, o.operation, o.task, FALSE, NullResultData, error, meta))

\* handleDownloadAssets.  assets counts allAssetUrls, pages the crawled pages left
\* to check, downloaded the assets downloaded; found is what extractAssetUrls adds.
AssetsAfterPage(o, found) ==
    LET n == IF o.assets + found > MAX_ASSETS THEN MAX_ASSETS ELSE o.assets + found IN
    IF o.pc \in {"assetsHttp", "assetsPuppeteer"}
    THEN [o EXCEPT !.assets = n, !.pc = IF n = 0 THEN "assetsCrawl" ELSE "download"]
    ELSE IF n < MAX_ASSETS /\ o.pages > 1
        THEN [o EXCEPT !.assets = n, !.pages = @ - 1, !.pc = "pageHttp"]
    ELSE IF n = 0
        THEN OpFail(o, "No assets found on the page or crawled pages.", o.meta)
    ELSE [o EXCEPT !.assets = n, !.pages = 0, !.pc = "download"]

Min(a, b) == IF a < b THEN a ELSE b

(***************************************************************************)
(* handleCrawl, crawlForContact and crawlForProducts.                      *)
(***************************************************************************)
\* how many of the contact paths the model lets a crawl try
MaxContactPaths == 3

\* getContactPageUrls: the paths tried on the origin of the base URL
getContactPageUrls(baseUrl) ==
    LET contactPaths ==
            <<"/contact", "/contact-us", "/contactus", "/contact.html", "/pages/contact",
              "/pages/contact-us", "/about", "/about-us", "/aboutus", "/pages/about",
              "/pages/about-us", "/support", "/help", "/customer-service",
              "/customer-care", "/info", "/information", "/get-in-touch", "/reach-us">>
    IN  IF baseUrl.wellFormed
        THEN SubSeq(contactPaths, 1, Min(MaxContactPaths, Len(contactPaths)))
        ELSE <<>>

RECURSIVE SeqsUpTo(_, _)
SeqsUpTo(S, n) ==
    IF n = 0 THEN {<<>>}
    ELSE SeqsUpTo(S, n - 1)
         \cup {Append(s, x) : s \in {t \in SeqsUpTo(S, n - 1) : Len(t) = n - 1}, x \in S}

\* [...new Set(s)]
RECURSIVE Unique(_)
Unique(s) ==
    IF Len(s) = 0 THEN <<>>
    ELSE LET front == Unique(SubSeq(s, 1, Len(s) - 1)) IN
         IF \E i \in 1..Len(front) : front[i] = s[Len(s)] THEN front
         ELSE Append(front, s[Len(s)])

\* scorePageForIntent, on the path of the page: the crawled pages share the host of
\* the seed URL, and the model gives them no title and no snippet
scorePageForIntent(path, intent) ==
    LET lowerUrl == toLowerCase(path)
        contactPatterns ==
            {"contact", "contacts", "about", "about-us", "aboutus", "stores", "store",
             "location", "locations", "head-office", "head_office", "headquarters",
             "support", "help", "customer-service", "customerservice", "reach-us",
             "get-in-touch", "find-us"}
        productPatterns ==
            {"product", "products", "shop", "store", "catalog", "catalogue", "collection",
             "collections", "category", "categories", "men", "mens", "women", "womens",
             "wallet", "wallets", "bag", "bags", "leather", "accessories"}
        penaltyPatterns ==
            {"login", "signin", "sign-in", "register", "signup", "sign-up", "cart",
             "checkout", "account", "privacy", "terms", "cookie", "sitemap", "rss", "feed"}
        matches(patterns) == Cardinality({p \in patterns : includes(lowerUrl, p)})
    IN  (IF intent.wantsEmail \/ intent.wantsPhone THEN 10 * matches(contactPatterns) ELSE 0)
        + (IF intent.wantsProductList THEN 10 * matches(productPatterns) ELSE 0)
        - 20 * matches(penaltyPatterns)

RECURSIVE SortByScore(_, _)
SortByScore(pages, intent) ==
    IF Len(pages) <= 1 THEN pages
    ELSE LET best == CHOOSE i \in 1..Len(pages) :
                        \A k \in 1..Len(pages) :
                            \/ scorePageForIntent(pages[i], intent)
                                    > scorePageForIntent(pages[k], intent)
                            \/ /\ scorePageForIntent(pages[i], intent)
                                    = scorePageForIntent(pages[k], intent)
                               /\ i <= k
             rest == [k \in 1..(Len(pages) - 1) |->
                        IF k < best THEN pages[k] ELSE pages[k + 1]]
         IN  <<pages[best]>> \o SortByScore(rest, intent)

CrIdle ==
    [pc |-> "idle", url |-> GarbageUrl, task |-> "", subTask |-> "",
     intent |-> inferTaskIntent("", "none"), config |-> NoConfig, meta |-> {}, cmeta |-> {},
     quick |-> FALSE, quickResult |-> NoResultJson, candidates |-> <<>>,
     i |-> 0, j |-> 0, allEmails |-> <<>>, allPhones |-> <<>>, pagesWithData |-> 0,
     pagesChecked |-> <<>>, allProducts |-> <<>>]

\* what a step of the crawl leads to: a nested handleFetchContent call, an awaited
\* crawl4aiCrawl, or the return of handleCrawl
CallsFetch(c, f) == [kind |-> "fetch", cr |-> c, fc |-> f, result |-> NoResultJson]
Awaits(c) == [kind |-> "await", cr |-> c, fc |-> FcIdle, result |-> NoResultJson]
CrawlReturns(result) == [kind |-> "return", cr |-> CrIdle, fc |-> FcIdle, result |-> result]

\* a check that never finds the crawl satisfied
hasFoundWhatWeNeedNever(c) == FALSE

hasFoundWhatWeNeed(c) ==
    /\ ~c.intent.wantsEmail \/ Len(c.allEmails) > 0
    /\ ~c.intent.wantsPhone \/ Len(c.allPhones) > 0

\* handleCrawl after a crawlForContact call returned `result', the end of
\* crawlForContact
AfterContact(c) ==
    LET uniqueEmails == Unique(c.allEmails)
        uniquePhones == Unique(c.allPhones)
        debugMeta == c.cmeta \cup {"pagesChecked", "pagesWithData"}
        result ==
            IF Len(uniqueEmails) = 0 /\ Len(uniquePhones) = 0
            THEN ResultJson(c.url, "crawl", c.task, FALSE, NullResultData, "No contact information found.",
                             debugMeta)
            ELSE ResultJson(c.url, "crawl", c.task, TRUE,
                    ResultData({"pages"}
                                \cup (IF c.intent.wantsEmail THEN {"emails"} ELSE {})
                                \cup (IF c.intent.wantsPhone THEN {"phones"} ELSE {}),
                               IF c.intent.wantsEmail THEN uniqueEmails ELSE <<>>,
                               IF c.intent.wantsPhone THEN uniquePhones ELSE <<>>, <<>>),
                    "", debugMeta)
    IN  IF ~c.quick \/ result.success THEN CrawlReturns(result)
        ELSE Awaits([c EXCEPT !.pc = "crawl", !.quickResult = result,
                              !.meta = @ \cup {"usedCrawl4ai"}])

\* the loops of crawlForContact, from its locals c up to the next awaited call
ContactLoops(c) ==
    LET contactUrls == getContactPageUrls(c.url)
        \* the candidates from position j on that step 2 has not checked yet
        unchecked ==
            {k \in (c.j + 1)..Len(c.candidates) :
                ~\E i \in 1..Len(c.pagesChecked) : c.pagesChecked[i] = c.candidates[k]}
    IN
    IF c.pc = "contactUrls" /\ c.i < Len(contactUrls) /\ ~hasFoundWhatWeNeed(c)
    THEN CallsFetch([c EXCEPT !.i = @ + 1,
                              !.pagesChecked = Append(@, contactUrls[c.i + 1])],
                    FetchCalled(c.url, contactUrls[c.i + 1], c.subTask, c.config, c.cmeta,
                                "contactUrls"))
    ELSE IF ~hasFoundWhatWeNeed(c) /\ unchecked # {}
    THEN LET k == CHOOSE k \in unchecked : \A m \in unchecked : k <= m IN
         CallsFetch([c EXCEPT !.pc = "candidates", !.j = k,
                              !.pagesChecked = Append(@, c.candidates[k])],
                    FetchCalled(c.url, c.candidates[k], c.subTask, c.config, c.cmeta,
                                "candidates"))
    ELSE AfterContact(c)

\* crawlForContact(baseUrl, task, subTask, candidates, ..., meta, ...) is called
crawlForContact(c, candidates, meta, quick) ==
    ContactLoops([c EXCEPT !.pc = "contactUrls", !.quick = quick, !.cmeta = meta,
                           !.candidates = candidates, !.i = 0, !.j = 0,
                           !.allEmails = <<>>, !.allPhones = <<>>, !.pagesWithData = 0,
                           !.pagesChecked = <<>>])

\* the loop of crawlForProducts up to the next awaited call, or its end
ProductsLoop(c) ==
    IF c.j < Len(c.candidates) /\ (c.j = 0 \/ Len(c.allProducts) < MAX_PRODUCTS)
    THEN CallsFetch([c EXCEPT !.pc = "products", !.j = @ + 1],
                    FetchCalled(c.url, c.candidates[c.j + 1], c.task, c.config, c.meta,
                                "products"))
    ELSE IF Len(c.allProducts) = 0
    THEN CrawlReturns(ResultJson(c.url, "crawl", c.task, FALSE, NullResultData, "No products found.", c.meta))
    ELSE CrawlReturns(ResultJson(c.url, "crawl", c.task, TRUE,
                        ResultData({"products", "sourcePages"}, <<>>, <<>>, c.allProducts),
                        "", c.meta))

\* the crawl goes on after the nested handleFetchContent call returned result: the
\* body of the loop collects from it, then the loop goes on
CrawlAfterFetch(c, result) ==
    LET usable == result.success /\ ~result.data.null
        emails == IF usable /\ c.intent.wantsEmail /\ "emails" \in result.data.keys
                  THEN result.data.emails ELSE <<>>
        phones == IF usable /\ c.intent.wantsPhone /\ "phones" \in result.data.keys
                  THEN result.data.phones ELSE <<>>
        products == IF usable THEN result.data.products ELSE <<>>
    IN  IF c.pc = "products"
        THEN ProductsLoop([c EXCEPT !.allProducts = Unique(@ \o products),
                                    !.meta = result.meta])
        ELSE ContactLoops(
                [c EXCEPT !.allEmails = @ \o emails,
                          !.allPhones = @ \o phones,
                          !.pagesWithData =
                                IF Len(emails) > 0 \/ Len(phones) > 0 THEN @ + 1 ELSE @,
                          !.cmeta = IF c.pc = "candidates" THEN result.meta ELSE @,
                          !.meta = IF c.pc = "candidates" /\ ~c.quick THEN result.meta
                                   ELSE @])

(***************************************************************************)
(* The actions of the handlers.                                            *)
(***************************************************************************)
\* a step of the crawl takes effect
ApplyCrawl(next) ==
    /\ cr' = next.cr
    /\ fc' = next.fc
    /\ op' = IF next.kind = "return" THEN OpReturn(op, next.result) ELSE op

\* a step of handleFetchContent takes effect; its return resumes the caller
ApplyFetch(step) ==
    IF ~step.done THEN fc' = step.frame /\ UNCHANGED <<op, cr>>
    ELSE IF fc.caller = "processUrl"
        THEN fc' = FcIdle /\ op' = OpReturn(op, step.result) /\ UNCHANGED cr
    ELSE ApplyCrawl(CrawlAfterFetch(cr, step.result))

FcEnterSkipValidation ==
    /\ fc.pc = "enter"
    /\ ApplyFetch(GoesOn([fc EXCEPT !.pc = "http",
                                    !.intent = inferTaskIntent(fc.task, "fetchContent")]))
    /\ UNCHANGED <<acq, agentVars, extVars, browserInstance, batch, ex, net>>

\* handleFetchContent up to its first awaited call: the URL is validated and the
\* intent of the task inferred
FcEnter ==
    /\ fc.pc = "enter"
    /\ LET f == fc
           urlValidation == validateUrl(f.url)
       IN  ApplyFetch(
            IF ~urlValidation.valid
            THEN Returns(ResultJson(f.url, "fetchContent", f.task, FALSE, NullResultData,
                                     OrElse(urlValidation.error, "Invalid URL"), f.meta))
            ELSE GoesOn([f EXCEPT !.pc = "http",
                                  !.intent = inferTaskIntent(f.task, "fetchContent")]))
    /\ UNCHANGED <<acq, agentVars, extVars, browserInstance, batch, ex, net>>

\* Stage 1: httpFetch returned.  Stage 1.5 is entered when FlareSolverr is
\* configured and HTTP was blocked or failed
FcHttp ==
    /\ fc.pc = "http"
    /\ \E httpResult \in FetchOutcomes :
        LET f == fc
            page == httpResult.page
            ok == httpResult.success /\ ~page.htmlEmpty
            \* text = result.text || extractTextContent(html)
            text == IF page.text # "" THEN page.text ELSE page.htmlText
            extracted == ExtractFrom(page, text, f.intent)
            meta == IF ok THEN f.meta \cup {"usedHttp"} ELSE f.meta
            wasCloudflareBlocked ==
                /\ ~ok
                /\ \/ includes(httpResult.error, "blocked")
                   \/ includes(httpResult.error, "CAPTCHA")
        IN  ApplyFetch(
             IF ok /\ extracted.success
             THEN Returns(ResultJson(f.url, "fetchContent", f.task, TRUE, extracted.data, "", meta))
             ELSE GoesOn([f EXCEPT
                    !.pc = IF f.config.flareSolverrUrl
                              /\ (wasCloudflareBlocked \/ ~httpResult.success)
                           THEN "flaresolverr" ELSE "puppeteer",
                    !.meta = meta]))
    /\ Request("http")
    /\ UNCHANGED <<acq, agentVars, extVars, browserInstance, batch, ex>>

\* Stage 1.5: flareSolverrFetch returned
FcFlareSolverr ==
    /\ fc.pc = "flaresolverr"
    /\ \E flareResult \in FetchOutcomes :
        LET f == fc
            page == flareResult.page
            ok == flareResult.success /\ ~page.htmlEmpty
            text == IF page.text # "" THEN page.text ELSE page.htmlText
            extracted == ExtractFrom(page, text, f.intent)
            meta == IF ok THEN f.meta \cup {"usedFlareSolverr"} ELSE f.meta
        IN  ApplyFetch(
             IF ok /\ extracted.success
             THEN Returns(ResultJson(f.url, "fetchContent", f.task, TRUE, extracted.data, "", meta))
             ELSE GoesOn([f EXCEPT !.pc = "puppeteer", !.meta = meta]))
    /\ Request("flaresolverr")
    /\ UNCHANGED <<acq, agentVars, extVars, browserInstance, batch, ex>>

\* Stage 2: getPageContent returned a PuppeteerPageContent, or threw
FcPuppeteer ==
    /\ fc.pc = "puppeteer"
    /\ \E puppeteerResult \in
            {[throws |-> FALSE, page |-> p] : p \in Pages \cup {NoExtractContent}}
            \cup {[throws |-> TRUE, page |-> NoExtractContent]} :
        /\ getBrowser(puppeteerResult.throws)
        /\ LET f == fc
               page == puppeteerResult.page
               extracted == ExtractFrom(page, page.text, f.intent)
               meta == f.meta \cup {"usedPuppeteer"}
           IN  ApplyFetch(
                IF puppeteerResult.throws THEN GoesOn([f EXCEPT !.pc = "bm25"])
                ELSE IF extracted.success
                THEN Returns(ResultJson(f.url, "fetchContent", f.task, TRUE, extracted.data,
                                        "", meta))
                ELSE GoesOn([f EXCEPT !.pc = "bm25", !.meta = meta]))
    /\ Request("puppeteer")
    /\ UNCHANGED <<acq, agentVars, extVars, batch, ex>>

\* Stage 3: crawl4aiQuery with f=bm25 returned
FcBm25 ==
    /\ fc.pc = "bm25"
    /\ \E bm25Result \in QueryOutcomes :
        LET f == fc
            ok == bm25Result.success /\ bm25Result.page.text # ""
            extracted == ExtractFrom(bm25Result.page, bm25Result.page.text, f.intent)
            meta == IF ok THEN f.meta \cup {"usedCrawl4ai"} ELSE f.meta
            \* the stage after BM25: the LLM request to await, "none" if LLM use is off
            stageAfterBm25 ==
                IF ~LlmStage(f.config) THEN "none"
                ELSE IF f.config.aiProvider = "openai-compatible" /\ f.config.openAiConfig
                        /\ f.config.aiModel
                    THEN IF f.intent.wantsEmail \/ f.intent.wantsPhone THEN "openaiContacts"
                         ELSE "openaiExtract"
                ELSE "crawl4aiLlm"
        IN  ApplyFetch(
             IF ok /\ extracted.success
             THEN Returns(ResultJson(f.url, "fetchContent", f.task, TRUE, extracted.data, "", meta))
             ELSE IF stageAfterBm25 = "none" THEN AllStagesFailed(f, meta)
             ELSE GoesOn([f EXCEPT !.pc = stageAfterBm25, !.meta = meta]))
    /\ Request("crawl4ai-bm25")
    /\ UNCHANGED <<acq, agentVars, extVars, browserInstance, batch, ex>>

\* Stage 4, OpenAI-compatible provider: openaiExtractContacts returned
FcOpenaiContacts ==
    /\ fc.pc = "openaiContacts"
    /\ \E contactResult \in
            [error : {""}, emails : {<<>>, <<"info@example.com">>},
             phones : {<<>>, <<"5551234567">>}]
            \cup [error : {"OpenAI API error"}, emails : {<<>>}, phones : {<<>>}] :
        LET f == fc
            meta == IF contactResult.error # "" THEN f.meta \cup {"llmError"} ELSE f.meta
            keys == {"pageTitle"}
                    \cup (IF Len(contactResult.emails) > 0 THEN {"emails"} ELSE {})
                    \cup (IF Len(contactResult.phones) > 0 THEN {"phones"} ELSE {})
        IN  ApplyFetch(
             IF Len(contactResult.emails) > 0 \/ Len(contactResult.phones) > 0
             THEN Returns(ResultJson(f.url, "fetchContent", f.task, TRUE,
                            ResultData(keys, contactResult.emails, contactResult.phones,
                                       <<>>),
                            "", meta))
             ELSE GoesOn([f EXCEPT !.pc = "openaiExtract", !.meta = meta]))
    /\ Request("openai-chat")
    /\ UNCHANGED <<acq, agentVars, extVars, browserInstance, batch, ex>>

\* Stage 4, OpenAI-compatible provider: openaiExtract returned
FcOpenaiExtract ==
    /\ fc.pc = "openaiExtract"
    /\ \E llmResult \in
            {[success |-> TRUE, text |-> "answer", error |-> ""],
             [success |-> FALSE, text |-> "",
              error |-> "LLM could not find the requested information"]} :
        LET f == fc
            meta == IF llmResult.error # "" THEN f.meta \cup {"llmError"} ELSE f.meta
        IN  ApplyFetch(
             IF llmResult.success /\ llmResult.text # ""
             THEN Returns(ResultJson(f.url, "fetchContent", f.task, TRUE,
                            ResultData({"rawAnswer", "pageTitle"}, <<>>, <<>>, <<>>),
                            "", meta))
             ELSE AllStagesFailed(f, meta))
    /\ Request("openai-chat")
    /\ UNCHANGED <<acq, agentVars, extVars, browserInstance, batch, ex>>

\* Stage 4, Crawl4AI provider: crawl4aiQuery with f=llm returned
FcCrawl4aiLlm ==
    /\ fc.pc = "crawl4aiLlm"
    /\ \E llmResult \in QueryOutcomes :
        LET f == fc
            ok == llmResult.success /\ llmResult.page.text # ""
            extracted == ExtractFrom(llmResult.page, llmResult.page.text, f.intent)
            meta == f.meta \cup {"usedCrawl4aiLlm"}
        IN  ApplyFetch(
             IF ~ok THEN AllStagesFailed(f, f.meta)
             ELSE IF extracted.success
             THEN Returns(ResultJson(f.url, "fetchContent", f.task, TRUE, extracted.data, "", meta))
             ELSE Returns(ResultJson(f.url, "fetchContent", f.task, TRUE,
                            ResultData({"rawAnswer", "pageTitle"}, <<>>, <<>>, <<>>),
                            "", meta)))
    /\ Request("crawl4ai-llm")
    /\ UNCHANGED <<acq, agentVars, extVars, browserInstance, batch, ex>>

\* handleCrawl up to its first awaited call
CrEnter ==
    /\ cr.pc = "enter"
    /\ LET c == cr
           urlValidation == validateUrl(c.url)
           intent == inferTaskIntent(c.task, "crawl")
           c1 == [c EXCEPT !.intent = intent, !.subTask = generateSubTask(c.task, intent)]
       IN  ApplyCrawl(
            IF ~urlValidation.valid
            THEN CrawlReturns(ResultJson(c.url, "crawl", c.task, FALSE, NullResultData,
                                          OrElse(urlValidation.error, "Invalid URL"),
                                          c.meta))
            ELSE IF intent.wantsEmail \/ intent.wantsPhone
            THEN crawlForContact(c1, <<>>, c1.meta, TRUE)
            ELSE Awaits([c1 EXCEPT !.pc = "crawl", !.meta = @ \cup {"usedCrawl4ai"}]))
    /\ UNCHANGED <<acq, agentVars, extVars, browserInstance, batch, ex, net>>

\* handleCrawl after crawl4aiCrawl returned crawledPages, all on the domain of the
\* seed URL
CrCrawl ==
    /\ cr.pc = "crawl"
    /\ \E crawledPages \in SeqsUpTo({"/contact", "/team"}, MaxCrawledPages) :
        LET c == cr
            sorted == SortByScore(crawledPages, c.intent)
            scoredPages == SubSeq(sorted, 1, Min(Len(sorted), MAX_CRAWL_CANDIDATES))
        IN  ApplyCrawl(
             IF c.intent.wantsEmail \/ c.intent.wantsPhone
             THEN IF Len(crawledPages) > 0
                  THEN crawlForContact(c, scoredPages, c.meta, FALSE)
                  ELSE CrawlReturns(c.quickResult)
             ELSE IF Len(crawledPages) = 0
             THEN CrawlReturns(ResultJson(c.url, "crawl", c.task, FALSE, NullResultData,
                                           "Could not crawl the website.", c.meta))
             ELSE IF c.intent.wantsProductList
             THEN ProductsLoop([c EXCEPT !.candidates = scoredPages, !.j = 0,
                                         !.allProducts = <<>>])
             ELSE CrawlReturns(ResultJson(c.url, "crawl", c.task, TRUE,
                                ResultData({"pagesFound", "pages"}, <<>>, <<>>, <<>>),
                                "", c.meta)))
    /\ Request("crawl4ai-crawl")
    /\ UNCHANGED <<acq, agentVars, extVars, browserInstance, batch, ex>>

\* processUrl: the switch on the operation; handleScreenshot, handleRunScript and
\* handleDownloadAssets run up to their first awaited call
OpDispatch ==
    /\ op.pc = "called"
    /\ CASE op.operation = "fetchContent" ->
                /\ fc' = FetchCalled(op.url, "", op.task, op.config, op.meta, "processUrl")
                /\ op' = [op EXCEPT !.pc = "awaitHandler"]
                /\ UNCHANGED cr
         [] op.operation = "crawl" ->
                \* handleCrawl(url, task, useAI, ..., meta, ...) is called
                /\ cr' = [CrIdle EXCEPT !.pc = "enter", !.url = op.url, !.task = op.task,
                                        !.config = op.config, !.meta = op.meta]
                /\ op' = [op EXCEPT !.pc = "awaitHandler"]
                /\ UNCHANGED fc
         [] op.operation \in {"screenshot", "runScript", "downloadAssets"} ->
                /\ op' = IF ~validateUrl(op.url).valid
                         THEN OpFail(op, OrElse(validateUrl(op.url).error, "Invalid URL"),
                                     op.meta)
                         ELSE CASE op.operation = "screenshot" ->
                                    [op EXCEPT !.pc = "captureScreenshot",
                                               !.meta = @ \cup {"usedPuppeteer"}]
                                [] op.operation = "runScript" ->
                                    [op EXCEPT !.pc = "runPageScript",
                                               !.meta = @ \cup {"usedPuppeteer"}]
                                [] OTHER -> [op EXCEPT !.pc = "assetsHttp"]
                /\ UNCHANGED <<fc, cr>>
         [] OTHER ->
                /\ op' = OpFail(op, "Unknown operation", op.meta)
                /\ UNCHANGED <<fc, cr>>
    /\ UNCHANGED <<acq, agentVars, extVars, browserInstance, batch, ex, net>>

\* handleScreenshot: captureScreenshot returned a value, or threw
OpScreenshot ==
    /\ op.pc = "captureScreenshot"
    /\ \E outcome \in {"ok", "throws"} :
        /\ getBrowser(outcome = "throws")
        /\ op' = IF outcome = "ok"
                 THEN OpReturn(op, ResultJson(op.url, op.operation, op.task, TRUE,
                                            ResultData({"fullPage"}, <<>>, <<>>, <<>>), "",
                                            op.meta))
                 ELSE OpFail(op, "Failed to capture screenshot: error", op.meta)
    /\ Request("puppeteer")
    /\ UNCHANGED <<acq, agentVars, extVars, batch, ex, fc, cr>>

\* handleRunScript: runPageScript returned a value, or threw
OpRunScript ==
    /\ op.pc = "runPageScript"
    /\ \E outcome \in {"ok", "throws"} :
        /\ getBrowser(outcome = "throws")
        /\ op' = IF outcome = "ok"
                 THEN OpReturn(op, ResultJson(op.url, op.operation, op.task, TRUE,
                                            ResultData({"result"}, <<>>, <<>>, <<>>), "",
                                            op.meta))
                 ELSE OpFail(op, "Script execution failed: error", op.meta)
    /\ Request("puppeteer")
    /\ UNCHANGED <<acq, agentVars, extVars, batch, ex, fc, cr>>

\* handleDownloadAssets: httpFetch of the page returned
OpAssetsHttp ==
    /\ op.pc = "assetsHttp"
    /\ \E ok \in BOOLEAN, found \in 0..MaxPageAssets :
        op' = IF ok THEN AssetsAfterPage([op EXCEPT !.meta = @ \cup {"usedHttp"}], found)
              ELSE [op EXCEPT !.pc = "assetsPuppeteer"]
    /\ Request("http")
    /\ UNCHANGED <<acq, agentVars, extVars, browserInstance, batch, ex, fc, cr>>

\* handleDownloadAssets: getPageContent of the page returned, or threw
OpAssetsPuppeteer ==
    /\ op.pc = "assetsPuppeteer"
    /\ \E throws \in BOOLEAN, found \in 0..MaxPageAssets :
        /\ getBrowser(throws)
        /\ op' = IF throws
                 THEN OpFail(op, "Could not fetch page content to find assets.", op.meta)
                 ELSE AssetsAfterPage([op EXCEPT !.meta = @ \cup {"usedPuppeteer"}], found)
    /\ Request("puppeteer")
    /\ UNCHANGED <<acq, agentVars, extVars, batch, ex, fc, cr>>

\* handleDownloadAssets: crawl4aiCrawl returned `crawled' pages, of which the first
\* ten are checked
OpAssetsCrawl ==
    /\ op.pc = "assetsCrawl"
    /\ \E crawled \in 0..MaxCrawledPages :
        LET m == op.meta \cup {"usedCrawl4ai"} IN
        op' = IF Min(crawled, 10) = 0
              THEN OpFail(op, "No assets found on the page or crawled pages.", m)
              ELSE [op EXCEPT !.meta = m, !.pages = Min(crawled, 10), !.pc = "pageHttp"]
    /\ Request("crawl4ai-crawl")
    /\ UNCHANGED <<acq, agentVars, extVars, browserInstance, batch, ex, fc, cr>>

\* handleDownloadAssets: httpFetch of a crawled page returned
OpPageHttp ==
    /\ op.pc = "pageHttp"
    /\ \E ok \in BOOLEAN, found \in 0..MaxPageAssets :
        op' = IF ok THEN AssetsAfterPage(op, found) ELSE [op EXCEPT !.pc = "pagePuppeteer"]
    /\ Request("http")
    /\ UNCHANGED <<acq, agentVars, extVars, browserInstance, batch, ex, fc, cr>>

\* handleDownloadAssets: getPageContent of a crawled page returned, or threw
OpPagePuppeteer ==
    /\ op.pc = "pagePuppeteer"
    /\ \E throws \in BOOLEAN, found \in 0..MaxPageAssets :
        /\ getBrowser(throws)
        /\ op' = AssetsAfterPage(op, IF throws THEN 0 ELSE found)
    /\ Request("puppeteer")
    /\ UNCHANGED <<acq, agentVars, extVars, batch, ex, fc, cr>>

\* one downloadAsset call; after the last one the result.  More than one asset
\* downloaded is zipped: zip.generateAsync is awaited outside any try block, and
\* when it rejects so does processUrl
OpDownload ==
    /\ op.pc = "download"
    /\ \E ok \in BOOLEAN, zipRejects \in BOOLEAN :
        LET d == IF ok THEN op.downloaded + 1 ELSE op.downloaded IN
        op' = IF op.assets > 1 THEN [op EXCEPT !.assets = @ - 1, !.downloaded = d]
              ELSE IF d = 0 THEN OpFail(op, "Failed to download any assets.", op.meta)
              ELSE IF d > 1 /\ zipRejects THEN [op EXCEPT !.pc = "threw"]
              ELSE OpReturn(op, ResultJson(op.url, op.operation, op.task, TRUE,
                                ResultData({"assetsCount", "assetType", "zipped"},
                                           <<>>, <<>>, <<>>),
                                "", op.meta))
    /\ Request("http")
    /\ UNCHANGED <<acq, agentVars, extVars, browserInstance, batch, ex, fc, cr>>

\* a caller calls processUrl for one operation on one URL
HandlerCall ==
    /\ op.pc = "idle"
    /\ acq.pc = "idle"
    /\ ex.pc = "idle"
    /\ \E url \in {UrlA, UrlPrivate, EmptyUrl, GarbageUrl,
                   [UrlA EXCEPT !.protocol = "ftp:"],
                   [UrlA EXCEPT !.host = [kind |-> "name", octets |-> <<>>,
                                          name |-> NameLocalhost]]},
          operation \in Operations, task \in NodeTasks, config \in NodeConfigs :
            op' = ProcessUrlCalled(url, operation, task, config)
    /\ net' = [call |-> {}, item |-> {}]
    /\ UNCHANGED <<acq, agentVars, extVars, browserInstance, batch, ex, fc, cr>>

(***************************************************************************)
(* execute: the loop over the input items and the URLs of each item.  The  *)
(* parameters of an item are read when the loop reaches it, and so is each *)
(* entry of its 'urls' parameter.                                          *)
(***************************************************************************)
\* what the model lets one execution hold
MaxItems == 1
MaxUrls == 2

\* what execute pushed to returnItems for a URL, as the properties read it
ReturnItem(json) ==
    [url |-> json.url, operation |-> json.operation, success |-> json.success,
     error |-> json.error, meta |-> json.meta]

\* i and u count the items and the URLs of the item reached so far, urls is the
\* length of the 'urls' parameter of the item, last the item pushed for the URL
\* reached last, calls the operations processUrl was called with for the entry
\* that is being processed
ExIdle ==
    [pc |-> "idle", i |-> 0, u |-> 0, task |-> "", urls |-> 0, url |-> GarbageUrl,
     operation |-> "none", result |-> NoResultJson, fallbacks |-> <<>>,
     last |-> ReturnItem(NoResultJson), calls |-> <<>>]

\* getCredentials and the node parameters read before the loop
ExCredentials ==
    /\ ex.pc = "credentials"
    /\ ex' = IF batch.credentialsFail THEN [ex EXCEPT !.pc = "thrown"]
             ELSE [ex EXCEPT !.pc = "item"]
    /\ UNCHANGED <<acq, agentVars, extVars, browserInstance, batch, op, fc, cr, net>>

\* the head of the loop over the items: the parameters of the next item are read
ExItem ==
    /\ ex.pc = "item"
    /\ ex.i < batch.items
    \* 'urls' is empty or holds MaxUrls entries, any of which may be empty
    /\ \E task \in NodeTasks, urls \in {0, MaxUrls} :
        ex' = [ex EXCEPT !.i = @ + 1, !.task = task, !.urls = urls, !.u = 0,
                         !.url = GarbageUrl, !.last = ReturnItem(NoResultJson),
                         !.operation =
                            IF batch.config.openAiConfig /\ batch.config.aiModel
                            THEN "none" ELSE inferOperationKeyword(task),
                         !.pc =
                            IF batch.config.openAiConfig /\ batch.config.aiModel
                            THEN "inferOperation" ELSE "url"]
    /\ net' = [call |-> {}, item |-> {}]
    /\ UNCHANGED <<acq, agentVars, extVars, browserInstance, batch, op, fc, cr>>

\* the options inferOperationWithLLM passes to fetch: no signal is among them
InferFetchOptions == {"method", "headers", "body"}

\* what a service called by fetch may do: answer (or fail), or never answer.  A
\* fetch that was given a signal is aborted then, which the caller sees as a failed
\* request; a fetch without one is awaited for ever
ServiceBehaviours(fetchOptions) ==
    IF "signal" \in fetchOptions THEN {"answers"} ELSE {"answers", "silent"}

\* inferOperationWithLLM: the chat-completion request and its answer ("" stands for
\* a failed request, a non-2xx status or an answer without content).  The answer,
\* trimmed and lowercased, is taken if it is one of validOperations; otherwise
\* inferOperation falls back to the keywords
ExInferOperation ==
    /\ ex.pc = "inferOperation"
    /\ \E behaviour \in ServiceBehaviours(InferFetchOptions),
          reply \in {"screenshot", "Crawl", " fetchContent", "downloadAssets", "what?", ""} :
        LET result == toLowerCase(trim(reply)) IN
        ex' = IF behaviour = "silent" THEN [ex EXCEPT !.pc = "blocked"]
              ELSE [ex EXCEPT !.operation = IF result \in Operations THEN result
                                             ELSE inferOperationKeyword(ex.task),
                              !.pc = "url"]
    /\ Request("openai-chat")
    /\ UNCHANGED <<acq, agentVars, extVars, browserInstance, batch, op, fc, cr>>

\* the head of the loop over the URLs of the item: the next entry of 'urls'
ExUrl ==
    /\ ex.pc = "url"
    /\ ex.u < ex.urls
    /\ \E url \in {UrlA, UrlPrivate, EmptyUrl} :
        IF url.empty
        THEN /\ ex' = [ex EXCEPT !.u = @ + 1, !.url = url, !.calls = <<>>,
                                 !.last = ReturnItem(NoResultJson)]
             /\ UNCHANGED <<op, net>>
        ELSE /\ ex' = [ex EXCEPT !.u = @ + 1, !.url = url, !.last = ReturnItem(NoResultJson),
                                 !.calls = <<ex.operation>>, !.pc = "awaitDetected"]
             /\ op' = ProcessUrlCalled(url, ex.operation, ex.task, batch.config)
             /\ net' = [net EXCEPT !.call = {}]
    /\ UNCHANGED <<acq, agentVars, extVars, browserInstance, batch, fc, cr>>

\* the URLs of the item are exhausted
ExUrlsDone ==
    /\ ex.pc = "url"
    /\ ex.u >= ex.urls
    /\ ex' = [ex EXCEPT !.pc = "item", !.last = ReturnItem(NoResultJson), !.calls = <<>>]
    /\ UNCHANGED <<acq, agentVars, extVars, browserInstance, batch, op, fc, cr, net>>

Push(e, json) ==
    [e EXCEPT !.last = ReturnItem(json), !.pc = "url", !.result = NoResultJson,
              !.fallbacks = <<>>, !.calls = <<>>]

\* processUrl returned for the detected operation
ExDetectedReturned ==
    /\ ex.pc = "awaitDetected"
    /\ op.pc = "returned"
    /\ LET result == [op.result EXCEPT !.meta = @ \cup {"detectedOperation"}]
           fallbacks == getFallbackOperations(ex.operation)
       IN  IF ~result.success /\ fallbacks # <<>>
           THEN /\ ex' = [ex EXCEPT !.pc = "awaitFallback", !.result = result,
                                    !.fallbacks = Tail(fallbacks),
                                    !.calls = Append(@, Head(fallbacks))]
                /\ op' = ProcessUrlCalled(ex.url, Head(fallbacks), ex.task, batch.config)
           ELSE /\ ex' = Push(ex, result)
                /\ op' = OpIdle
    /\ UNCHANGED <<acq, agentVars, extVars, browserInstance, batch, fc, cr, net>>

\* processUrl returned for a fallback operation
ExFallbackReturned ==
    /\ ex.pc = "awaitFallback"
    /\ op.pc = "returned"
    /\ IF op.result.success
       THEN /\ ex' = Push(ex, [op.result EXCEPT !.meta = @ \cup
                        {"detectedOperation", "originalOperation", "fallbackOperation"}])
            /\ op' = OpIdle
       ELSE IF ex.fallbacks # <<>>
       THEN /\ ex' = [ex EXCEPT !.fallbacks = Tail(@),
                                !.calls = Append(@, Head(ex.fallbacks))]
            /\ op' = ProcessUrlCalled(ex.url, Head(ex.fallbacks), ex.task, batch.config)
       ELSE /\ ex' = Push(ex, ex.result)
            /\ op' = OpIdle
    /\ UNCHANGED <<acq, agentVars, extVars, browserInstance, batch, fc, cr, net>>

\* processUrl rejected, for the detected operation or for a fallback: the catch
\* block pushes a failure item when the node is set to continue on fail, and the
\* loop goes on; otherwise it throws NodeOperationError, which leaves both loops,
\* and the finally block closes the browser on the way out
ExCaught ==
    /\ ex.pc \in {"awaitDetected", "awaitFallback"}
    /\ op.pc = "threw"
    /\ IF batch.continueOnFail
       THEN /\ ex' = Push(ex, ResultJson(ex.url, ex.operation, ex.task, FALSE,
                                        NullResultData, "error", {}))
            /\ UNCHANGED browserInstance
       ELSE /\ ex' = [ex EXCEPT !.pc = "thrown"]
            /\ closeBrowser
    /\ op' = OpIdle
    /\ UNCHANGED <<acq, agentVars, extVars, batch, fc, cr, net>>

\* the items are exhausted: the finally block closes the browser and the items are
\* returned
ExFinish ==
    /\ ex.pc = "item"
    /\ ex.i >= batch.items
    /\ ex' = [ex EXCEPT !.pc = "returned"]
    /\ closeBrowser
    /\ UNCHANGED <<acq, agentVars, extVars, batch, op, fc, cr, net>>

(***************************************************************************)
(* crawlForProducts on pages that list many products.  A product is the    *)
(* number that stands for its URL; a page lists a run of products, and the *)
(* runs of two pages may overlap.                                          *)
(***************************************************************************)
\* how many candidates the crawl is handed
MaxCandidates == 3

\* the products first, first + 1, ... of a page that lists n of them
ProductRun(first, n) == [i \in 1..n |-> first + i - 1]

\* what handleFetchContent answers for a candidate: a failure, or a success with
\* the products of the page
CandidateResults ==
    {[success |-> FALSE, products |-> <<>>]}
    \cup {[success |-> TRUE, products |-> ProductRun(first, n)] :
            first \in {1, 51, 101}, n \in {0, 1, 50, 99, 100}}

CpIdle ==
    [pc |-> "idle", candidates |-> 0, j |-> 0, allProducts |-> <<>>, seenUrls |-> {},
     sourcePages |-> 0, result |-> [success |-> FALSE, products |-> <<>>]]

\* the return statements that follow the loop
CpReturn(c) ==
    [c EXCEPT !.pc = "returned",
              !.result = IF Len(c.allProducts) = 0
                         THEN [success |-> FALSE, products |-> <<>>]
                         ELSE [success |-> TRUE, products |-> c.allProducts]]

\* const allProducts = [], sourcePages = [], seenUrls = new Set(); the loop is
\* entered when there is a candidate
CpEnter ==
    /\ cp.pc = "called"
    /\ cp' = IF cp.candidates = 0 THEN CpReturn(cp) ELSE [cp EXCEPT !.pc = "fetch"]
    /\ UNCHANGED <<acq, agentVars, ext, pr, em, ins, br, execVars>>

\* handleFetchContent returned for the candidate: its products are added, then
\* the loop ends when MAX_PRODUCTS is reached or no candidate is left
CpFetch ==
    /\ cp.pc = "fetch"
    /\ \E result \in CandidateResults :
        LET products == IF result.success THEN result.products ELSE <<>>
            unseen(product) == product \notin cp.seenUrls
            added == SelectSeq(products, unseen)
            c == [cp EXCEPT !.j = @ + 1,
                            !.sourcePages = IF Len(products) > 0 THEN @ + 1 ELSE @,
                            !.seenUrls = @ \cup {products[i] : i \in 1..Len(products)},
                            !.allProducts = @ \o added]
        IN  cp' = IF Len(c.allProducts) >= MAX_PRODUCTS \/ c.j = c.candidates
                  THEN CpReturn(c) ELSE c
    /\ UNCHANGED <<acq, agentVars, ext, pr, em, ins, br, execVars>>

(***************************************************************************)
(* One page inspected by crawlForContact: the handleFetchContent call for  *)
(* a conventional contact URL, answered by the HTTP stage with a page, and *)
(* what the loop collects from its result.                                 *)
(***************************************************************************)
\* tasks that make handleCrawl look for contact data
ContactTasks ==
    {"find email", "Email and phone", "phone number", "contact email and telephone",
     "call us or mail address"}

\* the pages inspected: those of Pages, and one with an address and a number
InspectedPages ==
    Pages \cup {[htmlEmpty |-> FALSE, title |-> "Title",
                 emails |-> <<"info@example.com">>, products |-> <<>>,
                 htmlText |-> "body text", text |-> "page text",
                 phones |-> <<"5551234567">>]}

InsIdle ==
    [pc |-> "idle", page |-> NoExtractContent, c |-> CrIdle, fc |-> FcIdle,
     result |-> NoResultJson, next |-> CrawlReturns(NoResultJson)]

\* handleFetchContent for the contact URL: the URL is valid, httpFetch delivers the
\* page, and Stage 1 returns what extractByIntent finds for the intent of the
\* sub-task; when it finds nothing the later stages take over
InsHttp ==
    /\ ins.pc = "called"
    /\ LET f == ins.fc
           page == ins.page
           intent == inferTaskIntent(f.task, "fetchContent")
           ok == ~page.htmlEmpty
           text == IF page.text # "" THEN page.text ELSE page.htmlText
           extracted == ExtractFrom(page, text, intent)
       IN  ins' = IF ok /\ extracted.success
                  THEN [ins EXCEPT !.pc = "fetched",
                                   !.result = ResultJson(f.url, "fetchContent", f.task, TRUE,
                                                         extracted.data, "",
                                                         f.meta \cup {"usedHttp"})]
                  ELSE [ins EXCEPT !.pc = "laterStages"]
    /\ UNCHANGED <<acq, agentVars, ext, pr, em, cp, br, execVars>>

\* the body of the loop after the await, up to the next awaited call or the return
InsCollect ==
    /\ ins.pc = "fetched"
    /\ ins' = [ins EXCEPT !.pc = "collected", !.next = CrawlAfterFetch(ins.c, ins.result)]
    /\ UNCHANGED <<acq, agentVars, ext, pr, em, cp, br, execVars>>

(***************************************************************************)
(* puppeteer.ts when several execute calls are active in one process.      *)
(* browserInstance is a variable of the module, shared by every run; a run *)
(* calls getPageContent for its URLs and closeBrowser in its finally       *)
(* block.  A browser is the number of the launch that created it, 0 is     *)
(* null; a browser is connected from its launch to its close.              *)
(***************************************************************************)
\* the runs active in the process, and the page functions one run calls
MaxRuns == 2
MaxPageCalls == 2

Runs == 1..MaxRuns

BrIdle ==
    [instance |-> 0, launched |-> 0, open |-> {}, closedBy |-> {},
     runs |-> [r \in Runs |-> [pc |-> "idle", browser |-> 0, left |-> 0]]]

BrRun(r, run) == br' = [br EXCEPT !.runs[r] = run]

\* getBrowser up to its await: the instance held is returned when it is
\* connected, otherwise puppeteer.launch is awaited
BrGetBrowser ==
    /\ \E r \in Runs :
        /\ br.runs[r].pc = "start"
        /\ IF br.instance # 0 /\ br.instance \in br.open
           THEN BrRun(r, [br.runs[r] EXCEPT !.pc = "newPage", !.browser = br.instance])
           ELSE BrRun(r, [br.runs[r] EXCEPT !.pc = "launching"])
    /\ UNCHANGED <<acq, agentVars, ext, pr, em, cp, ins, execVars>>

\* puppeteer.launch answered: browserInstance = the new browser; return it
BrLaunched ==
    /\ \E r \in Runs :
        /\ br.runs[r].pc = "launching"
        /\ LET b == br.launched + 1 IN
           br' = [br EXCEPT !.instance = b, !.launched = b, !.open = @ \cup {b},
                            !.runs[r] = [@ EXCEPT !.pc = "newPage", !.browser = b]]
    /\ UNCHANGED <<acq, agentVars, ext, pr, em, cp, ins, execVars>>

\* createPage: browser.newPage() answers a page, or rejects when the browser has
\* been closed; the rejection leaves getPageContent and ends the run's loop
BrNewPage ==
    /\ \E r \in Runs :
        /\ br.runs[r].pc = "newPage"
        /\ BrRun(r, [br.runs[r] EXCEPT
                !.pc = IF br.runs[r].browser \in br.open THEN "page" ELSE "finally"])
    /\ UNCHANGED <<acq, agentVars, ext, pr, em, cp, ins, execVars>>

\* page.goto, page.content and page.evaluate answered and the page was closed, or
\* one of them rejected because the browser is gone
BrPageDone ==
    /\ \E r \in Runs :
        /\ br.runs[r].pc = "page"
        /\ BrRun(r, [br.runs[r] EXCEPT
                !.left = @ - 1,
                !.pc = IF br.runs[r].browser \in br.open /\ br.runs[r].left > 1
                       THEN "start" ELSE "finally"])
    /\ UNCHANGED <<acq, agentVars, ext, pr, em, cp, ins, execVars>>

\* closeBrowser up to its await: if (browserInstance) await browserInstance.close()
BrCloseBrowser ==
    /\ \E r \in Runs :
        /\ br.runs[r].pc = "finally"
        /\ BrRun(r, IF br.instance # 0
                    THEN [br.runs[r] EXCEPT !.pc = "closing", !.browser = br.instance]
                    ELSE [br.runs[r] EXCEPT !.pc = "done", !.browser = 0])
    /\ UNCHANGED <<acq, agentVars, ext, pr, em, cp, ins, execVars>>

\* the browser that close() was called on disconnects
BrDisconnected ==
    /\ \E r \in Runs :
        /\ br.runs[r].pc = "closing"
        /\ LET b == br.runs[r].browser IN
           br' = [br EXCEPT !.open = @ \ {b},
                            !.closedBy = IF b \in br.open THEN @ \cup {<<b, r>>} ELSE @,
                            !.runs[r] = [@ EXCEPT !.pc = "closed"]]
    /\ UNCHANGED <<acq, agentVars, ext, pr, em, cp, ins, execVars>>

\* closeBrowser after its await: browserInstance = null
BrForget ==
    /\ \E r \in Runs :
        /\ br.runs[r].pc = "closed"
        /\ br' = [br EXCEPT !.instance = 0,
                            !.runs[r] = [@ EXCEPT !.pc = "done", !.browser = 0]]
    /\ UNCHANGED <<acq, agentVars, ext, pr, em, cp, ins, execVars>>

\* none of the side computations has been started
SideIdle == cp = CpIdle /\ ins = InsIdle /\ br = BrIdle

ExecIdle ==
    /\ batch = [config |-> NoConfig, credentialsFail |-> FALSE, continueOnFail |-> FALSE,
                items |-> 1]
    /\ browserInstance = FALSE
    /\ ex = ExIdle
    /\ op = OpIdle
    /\ fc = FcIdle
    /\ cr = CrIdle
    /\ net = [call |-> {}, item |-> {}]

(***************************************************************************)
(* Specifications                                                          *)
(***************************************************************************)
\* nothing has been called yet
InitIdle ==
    /\ acq = AcqIdle
    /\ AgentIdle
    /\ ext = ExtIdle /\ pr = PrIdle /\ em = EmIdle /\ SideIdle
    /\ ExecIdle

NextAcquire == AcquireCall \/ TryPreferred \/ TryHttp \/ TryFlareSolverr \/ TryPuppeteer

SpecAcquire == InitIdle /\ [][NextAcquire]_vars

\* executeAgent up to the loop (lines 291-307).  The runs explored: every
\* configuration with an explicit maxIterations, and the default maxIterations with
\* every service configured; the Stage-1 content the agent is seeded with succeeded
\* or failed
InitAgent ==
    /\ acq = AcqIdle
    /\ ext = ExtIdle /\ pr = PrIdle /\ em = EmIdle /\ SideIdle
    /\ ExecIdle
    /\ \E c \in [maxIterations : 1..MaxIterationsOption,
                  initialContent :
                    {AcquiredContent(UrlA, "<html>", "text", "http", TRUE, ""),
                     AcquiredContent(UrlA, "", "", "http", FALSE,
                                     "All acquisition methods failed")},
                  flareSolverrUrl : BOOLEAN, crawl4aiBaseUrl : BOOLEAN]
              \cup [maxIterations : {0},
                    initialContent :
                        {AcquiredContent(UrlA, "<html>", "text", "http", TRUE, "")},
                    flareSolverrUrl : {TRUE}, crawl4aiBaseUrl : {TRUE}] :
        /\ agentOptions = c
        \* const maxIterations = options.maxIterations || 5
        /\ maxIterations = (IF c.maxIterations = 0 THEN DefaultMaxIterations
                            ELSE c.maxIterations)
        /\ accumulatedContent = <<c.initialContent>>
    /\ agentPc = "loop"
    /\ iteration = 1
    /\ scratchpad = <<>>
    /\ llmCalls = 0
    /\ totalCost = 0
    /\ agentResult = [AgentResult(FALSE, "", 0, 0, 0, "") EXCEPT
                        !.returned = FALSE, !.sources = <<>>]
    /\ toolCall = [tool |-> "none", url |-> GarbageUrl]
    /\ agentLog = AgentLogInit

NextAgent ==
    \/ LoopHead
    \/ LLMFails
    \/ LLMUnparseable
    \/ LLMComplete
    \/ LLMCompleteEmpty
    \/ LLMCompleteNonString
    \/ ForcedAfterEmpty
    \/ ForcedAtMax
    \/ LLMScrape
    \/ ScrapeReturn
    \/ LLMCrawlLinks
    \/ Crawl4aiReturn
    \/ CrawlAcquireReturn
    \/ LLMUnknownTool
    \/ TryPreferred
    \/ TryHttp
    \/ TryFlareSolverr
    \/ TryPuppeteer

SpecAgent == InitAgent /\ [][NextAgent]_vars

InitExtract ==
    /\ acq = AcqIdle
    /\ AgentIdle
    \* a caller has handed acquired content and a task to Stage 2
    /\ \E content \in ExtractContents, task \in UNION {TasksOfLength(n) : n \in 1..MaxTaskWords} :
            ext = [ExtIdle EXCEPT !.pc = "called", !.content = content, !.task = task]
    /\ pr = PrIdle /\ em = EmIdle /\ SideIdle
    /\ ExecIdle

NextExtract == TryExtraction

SpecExtract == InitExtract /\ [][NextExtract]_vars

InitProducts ==
    /\ acq = AcqIdle
    /\ AgentIdle
    /\ ext = ExtIdle
    /\ em = EmIdle /\ SideIdle
    /\ ExecIdle
    \* a caller has handed a page and, or not, a base URL to extractProductsFromHtml
    /\ \E page \in ProductPages, baseUrl \in BaseUrls, html \in {"", "<html>"} :
            /\ html = "" => \A s \in DOMAIN page : page[s] = <<>>
            /\ pr = [PrIdle EXCEPT !.pc = "called", !.html = html, !.page = page,
                                   !.baseUrl = baseUrl]

NextProducts == PrEnter \/ PrEach \/ PrSelectorDone

SpecProducts == InitProducts /\ [][NextProducts]_vars

InitEmails ==
    /\ acq = AcqIdle
    /\ AgentIdle
    /\ ext = ExtIdle
    /\ pr = PrIdle /\ SideIdle
    /\ ExecIdle
    \* a caller has handed extractEmails a page in which up to MaxEmbedded
    \* addresses are written, or an empty string
    /\ \E as \in SUBSET Addresses, texts \in UNION {[1..n -> UNION {Renderings(a) : a \in Addresses}] : n \in 0..MaxEmbedded} :
            /\ as = {a \in Addresses : \E i \in DOMAIN texts : texts[i] \in Renderings(a)}
            /\ em = [EmIdle EXCEPT !.pc = "called", !.embedded = {Written(a, "@", ".") : a \in as},
                        !.textOrHtml = IF texts = <<>> THEN ""
                                       ELSE "<p>Contact: " \o joinLabels(texts, " or ") \o " today</p>"]

NextEmails == EmEnter \/ EmDecode \/ EmMailto \/ EmHref \/ EmStandard \/ EmFilter

SpecEmails == InitEmails /\ [][NextEmails]_vars

\* a caller outside execute calls acquireContent, or processUrl for one operation
InitCrawlProducts ==
    /\ acq = AcqIdle
    /\ AgentIdle
    /\ ext = ExtIdle /\ pr = PrIdle /\ em = EmIdle
    /\ ins = InsIdle /\ br = BrIdle
    /\ ExecIdle
    \* handleCrawl has handed its scored candidates to crawlForProducts
    /\ \E n \in 0..MaxCandidates : cp = [CpIdle EXCEPT !.pc = "called", !.candidates = n]

NextCrawlProducts == CpEnter \/ CpFetch

SpecCrawlProducts == InitCrawlProducts /\ [][NextCrawlProducts]_vars

InitInspect ==
    /\ acq = AcqIdle
    /\ AgentIdle
    /\ ext = ExtIdle /\ pr = PrIdle /\ em = EmIdle
    /\ cp = CpIdle /\ br = BrIdle
    /\ ExecIdle
    \* handleCrawl called crawlForContact, directly (quick) or with a candidate the
    \* crawler found, and crawlForContact awaits handleFetchContent for the first
    \* conventional contact URL
    /\ \E task \in ContactTasks, page \in InspectedPages, quick \in BOOLEAN :
        LET intent == inferTaskIntent(task, "crawl")
            c == [CrIdle EXCEPT !.url = UrlA, !.task = task, !.intent = intent,
                                !.subTask = generateSubTask(task, intent)]
            first == crawlForContact(c, IF quick THEN <<>> ELSE <<"/team">>, {}, quick)
        IN  ins = [InsIdle EXCEPT !.pc = "called", !.page = page, !.c = first.cr,
                                  !.fc = first.fc]

NextInspect == InsHttp \/ InsCollect

SpecInspect == InitInspect /\ [][NextInspect]_vars

InitBrowser ==
    /\ acq = AcqIdle
    /\ AgentIdle
    /\ ext = ExtIdle /\ pr = PrIdle /\ em = EmIdle
    /\ cp = CpIdle /\ ins = InsIdle
    /\ ExecIdle
    \* every run has URLs to render
    /\ \E left \in [Runs -> 1..MaxPageCalls] :
            br = [BrIdle EXCEPT
                    !.runs = [r \in Runs |-> [pc |-> "start", browser |-> 0,
                                              left |-> left[r]]]]

NextBrowser ==
    \/ BrGetBrowser
    \/ BrLaunched
    \/ BrNewPage
    \/ BrPageDone
    \/ BrCloseBrowser
    \/ BrDisconnected
    \/ BrForget

SpecBrowser == InitBrowser /\ [][NextBrowser]_vars

NextHandlers ==
    \/ AcquireCall
    \/ TryPreferred
    \/ TryHttp
    \/ TryFlareSolverr
    \/ TryPuppeteer
    \/ HandlerCall
    \/ OpDispatch
    \/ FcEnter
    \/ FcHttp
    \/ FcFlareSolverr
    \/ FcPuppeteer
    \/ FcBm25
    \/ FcOpenaiContacts
    \/ FcOpenaiExtract
    \/ FcCrawl4aiLlm
    \/ CrEnter
    \/ CrCrawl
    \/ OpScreenshot
    \/ OpRunScript
    \/ OpAssetsHttp
    \/ OpAssetsPuppeteer
    \/ OpAssetsCrawl
    \/ OpPageHttp
    \/ OpPagePuppeteer
    \/ OpDownload

SpecHandlers == InitIdle /\ [][NextHandlers]_vars

InitExecute ==
    /\ acq = AcqIdle
    /\ AgentIdle
    /\ ext = ExtIdle /\ pr = PrIdle /\ em = EmIdle /\ SideIdle
    \* the node parameters and credentials of one execution; credentialsFail says
    \* that getCredentials('openAICompatibleApi') throws, continueOnFail is the
    \* setting of the node that this.continueOnFail() answers
    \* The runs explored: every configuration without continue on fail, and continue
    \* on fail without AI
    /\ batch \in {b \in [config : NodeConfigs, credentialsFail : BOOLEAN,
                          continueOnFail : BOOLEAN, items : 1..MaxItems] :
                    /\ b.credentialsFail => b.config.aiProvider = "openai-compatible"
                    /\ b.continueOnFail => b.config.aiProvider = "none"}
    /\ browserInstance = FALSE
    /\ ex = [ExIdle EXCEPT !.pc = "credentials"]
    /\ op = OpIdle
    /\ fc = FcIdle
    /\ cr = CrIdle
    /\ net = [call |-> {}, item |-> {}]

NextExecute ==
    \/ ExCredentials
    \/ ExItem
    \/ ExInferOperation
    \/ ExUrl
    \/ ExUrlsDone
    \/ ExDetectedReturned
    \/ ExFallbackReturned
    \/ ExCaught
    \/ ExFinish
    \/ OpDispatch
    \/ FcEnter
    \/ FcHttp
    \/ FcFlareSolverr
    \/ FcPuppeteer
    \/ FcBm25
    \/ FcOpenaiContacts
    \/ FcOpenaiExtract
    \/ FcCrawl4aiLlm
    \/ CrEnter
    \/ CrCrawl
    \/ OpScreenshot
    \/ OpRunScript
    \/ OpAssetsHttp
    \/ OpAssetsPuppeteer
    \/ OpAssetsCrawl
    \/ OpPageHttp
    \/ OpPagePuppeteer
    \/ OpDownload

SpecExecute == InitExecute /\ [][NextExecute]_vars

(***************************************************************************)
(* Properties                                                              *)
(***************************************************************************)

\* C1: the loop issues at most maxIterations loop requests and completes at most
\* maxIterations cycles, and a returned result has iterations <= maxIterations.
Thm_C1_IterationsBounded ==
    /\ agentLog.loopCalls <= maxIterations
    /\ Len(scratchpad) <= maxIterations
    /\ agentResult.returned => agentResult.iterations <= maxIterations

Wit_C1_AllIterationsUsed ==
    /\ agentResult.returned
    /\ maxIterations > 1
    /\ agentLog.loopCalls = maxIterations
    /\ agentResult.iterations = maxIterations

\* C2: when every one of the maxIterations cycles ended without a complete call
\* (each left its scratchpad entry), the result returned is success=true with a
\* non-empty text and iterations = maxIterations.
Thm_C2_ForcedAtBoundary ==
    (agentResult.returned /\ Len(scratchpad) = maxIterations)
        => /\ agentResult.success
           /\ agentResult.text # ""
           /\ agentResult.iterations = maxIterations

Wit_C2_ForcedAtBoundary ==
    /\ agentResult.returned
    /\ Len(scratchpad) = maxIterations
    /\ agentLog.completeCalls = 0
    /\ agentLog.llmRequests = maxIterations + 1

\* a step in which a scrape_url call returns its ToolResult
ScrapeReturns ==
    /\ iteration' = iteration + 1
    /\ Len(scratchpad') = Len(scratchpad) + 1
    /\ scratchpad'[Len(scratchpad')].tool = "scrape_url"

InMap(url) == \E i \in 1..Len(accumulatedContent) : accumulatedContent[i].url = url

\* C3 as stated: a scrape_url call that follows a scrape_url call for the same URL
\* (one that went to the network or answered from the cache) performs no
\* acquisition and returns the cached content with alreadyScraped=true.
Orig_C3_SecondScrapeCached ==
    [][(/\ ScrapeReturns
        /\ agentLog.lastTool.tool = "scrape_url"
        /\ agentLog.lastTool.acquired \/ agentLog.lastTool.alreadyScraped
        /\ agentLog'.lastTool.url = agentLog.lastTool.url)
            => (agentLog'.lastTool.alreadyScraped /\ ~agentLog'.lastTool.acquired)]_vars

\* C3 amended: a scrape_url call for a URL that is in the accumulated-content map
\* performs no acquisition, leaves the map as it is, and when it succeeds it
\* returns the cached content with alreadyScraped=true.
Thm_C3_CachedScrape ==
    [][(ScrapeReturns /\ InMap(agentLog'.lastTool.url))
            => /\ ~agentLog'.lastTool.acquired
               /\ accumulatedContent' = accumulatedContent
               /\ agentLog'.lastTool.success => agentLog'.lastTool.alreadyScraped]_vars

Wit_C3_CachedAfterAcquire ==
    /\ agentLog.lastTool.tool = "scrape_url"
    /\ agentLog.lastTool.url = UrlB
    /\ agentLog.lastTool.alreadyScraped
    /\ InMap(UrlB)

\* C4: in one acquireContent call a successful attempt is the last attempt, the
\* call has returned, and what it returned is that attempt's content.
Thm_C4_StopsAtFirstSuccess ==
    \A i \in 1..Len(acq.tried) :
        acq.tried[i].success
            => /\ i = Len(acq.tried)
               /\ acq.pc = "done"
               /\ acq.content.success
               /\ acq.content.method = acq.tried[i].method

Wit_C4_StoppedBeforeBrowser ==
    /\ acq.pc = "done"
    /\ ~acq.options.skipPuppeteer
    /\ acq.options.preferredMethod = "unset"
    /\ Len(acq.tried) = 2
    /\ acq.tried[2] = [method |-> "flaresolverr", success |-> TRUE]

\* C5 as stated: after a failed HTTP attempt, with the bypass proxy configured and
\* not skipped, the rendered browser is attempted only after the bypass proxy.
Claim_C5_ProxyBeforeBrowser ==
    (acq.options.flareSolverrUrl /\ ~acq.options.skipFlareSolverr)
        => \A i, j \in 1..Len(acq.tried) :
                (/\ i < j
                 /\ acq.tried[i] = [method |-> "http", success |-> FALSE]
                 /\ acq.tried[j].method = "puppeteer")
                    => \E k \in 1..(j - 1) : acq.tried[k].method = "flaresolverr"

\* loopback and private hosts, by address rather than by text
IsLoopbackOrPrivate(host) ==
    CASE host.kind = "ipv4" ->
            LET o == host.octets IN
            \/ o[1] = 127
            \/ o = <<0, 0, 0, 0>>
            \/ o[1] = 10
            \/ o[1] = 172 /\ o[2] \in 16..31
            \/ o[1] = 192 /\ o[2] = 168
      [] host.kind = "ipv6" -> host.name = <<":", ":", "1">>
      [] host.kind = "name" -> ToLower(host.name) = NameLocalhost
      [] OTHER -> FALSE

\* C7 as stated: acquireContent issues no transport request to a URL whose scheme
\* is not http/https or whose host is loopback or private, and fails for it.
Claim_C7_NoRequestToPrivateHost ==
    (/\ acq.pc # "idle"
     /\ acq.url.wellFormed
     /\ acq.url.protocol \notin {"http:", "https:"} \/ IsLoopbackOrPrivate(acq.url.host))
        => /\ acq.tried = <<>>
           /\ acq.pc = "done" => ~acq.content.success

\* C6: for a URL that validateUrl rejects, a handler called through processUrl never
\* gets past its validation (no awaited call is reached and no request is issued)
\* and returns success=false with an error; acquireContent returns a failed content
\* with an error and has attempted no transport.
Thm_C6_InvalidUrlFailsFast ==
    /\ (op.pc # "idle" /\ ~validateUrl(op.url).valid)
            => /\ net.call = {}
               /\ op.pc \in {"called", "awaitHandler", "returned"}
               /\ fc.pc \in {"idle", "enter"}
               /\ cr.pc \in {"idle", "enter"}
               /\ op.pc = "returned" => (~op.result.success /\ op.result.error # "")
    /\ (acq.pc # "idle" /\ ~validateUrl(acq.url).valid)
            => /\ acq.pc = "done"
               /\ acq.tried = <<>>
               /\ ~acq.content.success
               /\ acq.content.error # ""

Wit_C6_PrivateUrlRejectedByFetch ==
    /\ op.pc = "returned"
    /\ op.operation = "fetchContent"
    /\ op.url = UrlPrivate
    /\ ~op.result.success
    /\ op.result.error # ""
    /\ net.call = {}

\* C8: with aiProvider 'none' no LLM request is issued while an item is processed:
\* not for the detection of the operation, not by the detected operation and not
\* by a fallback operation.
Thm_C8_NoLlmRequestWhenDisabled ==
    batch.config.aiProvider = "none"
        => /\ net.item = {}
           /\ net.call \cap LlmRequests = {}
           /\ ex.pc # "inferOperation"
           /\ fc.pc \notin {"openaiContacts", "openaiExtract", "crawl4aiLlm"}

Wit_C8_AllStagesFailedWithoutLlm ==
    /\ batch.config.aiProvider = "none"
    /\ ex.pc = "url"
    /\ ex.last.url = UrlA
    /\ ~ex.last.success
    /\ {"http", "puppeteer", "crawl4ai-bm25", "crawl4ai-crawl"} \subseteq net.call

\* C9 as stated: when the first URL of an item was satisfied by fetchContent from
\* the plain HTTP fetch and the deterministic extractors alone, no LLM request was
\* issued since the item was started.
Claim_C9_NoLlmWhenHttpSuffices ==
    (/\ ex.pc = "url"
     /\ ex.u = 1
     /\ ex.last.success
     /\ ex.last.operation = "fetchContent"
     /\ ex.last.meta = {"usedHttp", "detectedOperation"})
        => net.item = {}

\* C10: when the detected intent of the task has isComplexTask, requiresNavigation,
\* wantsStructuredData or isResearch set, tryNonLlmExtraction returns success=false,
\* whatever the extractors found in the content.
Thm_C10_LlmOnlyIntentsFail ==
    LET intent == ext.result.detectedIntent IN
    (/\ ext.pc = "done"
     /\ \/ intent.isComplexTask
        \/ intent.requiresNavigation
        \/ intent.wantsStructuredData
        \/ intent.isResearch)
        => ~ext.result.success

Wit_C10_ResearchWithEmailsFound ==
    /\ ext.pc = "done"
    /\ ext.result.detectedIntent.isResearch
    /\ ~ext.result.detectedIntent.isComplexTask
    /\ "emails" \in ext.result.data.has
    /\ ~ext.result.success

Thm_C12_EmptyCompleteForcesSynthesis ==
    [][/\ (agentPc = "callLLM" /\ agentPc' = "forcedEmpty")
            => /\ llmCalls' = llmCalls + 1
               /\ agentLog'.llmRequests = agentLog.llmRequests + 1
               /\ ~agentResult'.returned
       /\ agentPc = "forcedEmpty"
            => /\ agentPc' = "done"
               /\ agentLog'.llmRequests = agentLog.llmRequests
               /\ agentResult'.returned /\ agentResult'.success
               /\ agentResult'.text # ""
               /\ agentResult'.text \in {"synthesized answer",
                                          buildFallbackSummary(accumulatedContent)}]_vars

Wit_C12_FallbackAfterEmptyComplete ==
    /\ agentResult.returned
    /\ agentLog.completeCalls = 1
    /\ agentLog.llmRequests = agentLog.loopCalls + 1
    /\ agentResult.success
    /\ agentResult.text = buildFallbackSummary(accumulatedContent)

\* the step appends a scratchpad entry that records an unparseable response or
\* an unknown tool
ErrorEntryPushed ==
    /\ Len(scratchpad') > Len(scratchpad)
    /\ scratchpad'[Len(scratchpad')].tool \in {"error", "unknown"}

\* C13: an iteration whose response is unparseable or names an unknown tool does not
\* end the run: it appends exactly one scratchpad entry, for that iteration, nothing
\* is returned, and while iterations remain the next step is the next iteration's
\* request to the LLM.
Thm_C13_ErrorIterationContinues ==
    [][/\ ErrorEntryPushed
            => /\ agentPc = "callLLM"
               /\ Len(scratchpad') = Len(scratchpad) + 1
               /\ SubSeq(scratchpad', 1, Len(scratchpad)) = scratchpad
               /\ scratchpad'[Len(scratchpad')].iteration = iteration
               /\ scratchpad'[Len(scratchpad')].result \in {"Invalid response format", "Error"}
               /\ ~agentResult'.returned
               /\ agentPc' = "loop"
               /\ iteration' = iteration + 1
       /\ (agentPc = "loop" /\ iteration <= maxIterations)
            => /\ agentPc' = "callLLM"
               /\ agentLog'.loopCalls = agentLog.loopCalls + 1
               /\ iteration' = iteration]_vars

Wit_C13_IterationAfterErrors ==
    /\ Len(scratchpad) = 2
    /\ scratchpad[1].tool = "error"
    /\ scratchpad[2].tool = "unknown"
    /\ agentPc = "callLLM"
    /\ iteration = 3

\* C14: every result executeAgent returns has a non-empty text when success=true,
\* and an empty text with a non-empty error message when success=false.
Thm_C14_ResultShape ==
    agentResult.returned
        => /\ agentResult.success => agentResult.text # ""
           /\ ~agentResult.success => (agentResult.text = "" /\ agentResult.error # "")

Wit_C14_FailureAfterProgress ==
    /\ agentResult.returned
    /\ ~agentResult.success
    /\ agentResult.error = "LLM API error"
    /\ agentResult.iterations = 1
    /\ agentResult.llmCalls = 2

\* C15 as stated: executeAgent returns a non-empty text on every exit path, the
\* failure of an LLM call inside the loop included.
Orig_C15_TextOnEveryExit ==
    agentResult.returned => agentResult.text # ""

\* C15 amended: the forced synthesis, at exhaustion or after an empty complete,
\* always returns success=true with a non-empty text; the only exit without a text
\* is a throw inside the loop, which returns success=false with an empty text, the
\* error message and iterations = the number of scratchpad entries, and issues no
\* further LLM request.
Thm_C15_TextUnlessThrown ==
    [][/\ agentPc \in {"forced", "forcedEmpty"}
            => (agentResult'.returned /\ agentResult'.success /\ agentResult'.text # "")
       /\ (~agentResult.returned /\ agentResult'.returned /\ agentResult'.text = "")
            => /\ agentPc = "callLLM"
               /\ ~agentResult'.success
               /\ agentResult'.error # ""
               /\ agentResult'.iterations = Len(scratchpad)
               /\ agentResult'.llmCalls = llmCalls
               /\ agentLog'.llmRequests = agentLog.llmRequests
       /\ (~agentResult.returned /\ agentResult'.returned /\ agentResult'.error = "LLM API error")
            => agentResult'.text = ""]_vars

Wit_C15_FirstCallFails ==
    /\ agentResult.returned
    /\ ~agentResult.success
    /\ agentResult.text = ""
    /\ agentResult.error = "LLM API error"
    /\ agentResult.llmCalls = 1
    /\ agentResult.iterations = 0

\* C16 as stated: when every transport acquireContent attempted has failed, the
\* result returned is success=false with the error "All acquisition methods failed".
Claim_C16_AllFailedError ==
    (/\ acq.pc = "done"
     /\ Len(acq.tried) > 0
     /\ \A i \in 1..Len(acq.tried) : ~acq.tried[i].success)
        => /\ ~acq.content.success
           /\ acq.content.error = "All acquisition methods failed"

\* C17: the scratchpad is append-only, its k-th entry carries iteration k, and
\* while iteration i runs it holds exactly the entries of the iterations 1..i-1.
Thm_C17_ScratchpadContiguous ==
    /\ [](/\ \A k \in 1..Len(scratchpad) : scratchpad[k].iteration = k
          /\ Len(scratchpad) = iteration - 1)
    /\ [][\/ scratchpad' = scratchpad
          \/ /\ Len(scratchpad') = Len(scratchpad) + 1
             /\ SubSeq(scratchpad', 1, Len(scratchpad)) = scratchpad]_vars

Wit_C17_ThirdIterationStarts ==
    /\ agentPc = "callLLM"
    /\ iteration = 3
    /\ Len(scratchpad) = 2
    /\ scratchpad[2].tool = "scrape_url"

\* the html the accumulated-content map holds for url, "" if it holds none
CachedHtml(url) ==
    IF InMap(url)
    THEN accumulatedContent[CHOOSE i \in 1..Len(accumulatedContent) :
                                accumulatedContent[i].url = url].html
    ELSE ""

\* C18: a crawl_links call for a URL goes to the external crawler first exactly when
\* a crawler base URL is configured; when the crawler is not configured, throws or
\* returns no pages, the links are taken from the html the map already holds for
\* the URL, or from the html of an acquisition of the URL started by the call.
Thm_C18_CrawlLinksFallback ==
    [][/\ (agentPc = "callLLM" /\ toolCall'.tool = "crawl_links")
            => /\ agentPc' = "crawl4ai" <=> agentOptions.crawl4aiBaseUrl
               /\ agentPc' = "crawlAcquire" <=> (~agentOptions.crawl4aiBaseUrl
                                                  /\ ~InMap(toolCall'.url))
       /\ (agentPc = "callLLM" /\ agentLog'.lastTool # agentLog.lastTool
                /\ agentLog'.lastTool.tool = "crawl_links"
                /\ agentLog'.lastTool.url # EmptyUrl)
            => /\ ~agentOptions.crawl4aiBaseUrl
               /\ InMap(agentLog'.lastTool.url)
               /\ agentLog'.lastTool.success = (CachedHtml(agentLog'.lastTool.url) # "")
       /\ agentPc = "crawl4ai"
            => \/ /\ agentPc' = "loop"
                  /\ agentLog'.lastTool.url = toolCall.url
                  /\ \/ agentLog'.lastTool.success
                     \/ InMap(toolCall.url) /\ CachedHtml(toolCall.url) = ""
               \/ /\ agentPc' = "crawlAcquire"
                  /\ ~InMap(toolCall.url)
                  /\ acq'.pc # "idle" /\ acq'.url = toolCall.url
       /\ (agentPc = "crawlAcquire" /\ agentPc' # "crawlAcquire")
            => /\ agentLog'.lastTool.url = toolCall.url
               /\ agentLog'.lastTool.success = (acq.content.html # "")]_vars

Wit_C18_CrawlerFailedThenAcquired ==
    /\ agentOptions.crawl4aiBaseUrl
    /\ agentLog.lastTool.tool = "crawl_links"
    /\ agentLog.lastTool.url = UrlB
    /\ agentLog.lastTool.success
    /\ agentLog.lastTool.acquired
    /\ InMap(UrlB)

\* C19: an error thrown while one URL is processed never keeps the remaining URLs
\* and items of the same run from being processed and reported: execute never ends
\* with an error thrown out of the loop while entries of 'urls' or input items are
\* still to come
Claim_C19_ErrorStaysWithItsUrl ==
    (ex.pc = "thrown" /\ ex.i > 0) => (ex.u >= ex.urls /\ ex.i >= batch.items)

\* C20: every way out of a run, the return of the items or an error thrown, leaves
\* no browser held: once execute has finished, the singleton instance is released,
\* whatever page functions launched it during the run
Thm_C20_BrowserClosedOnEveryExit ==
    ex.pc \in {"returned", "thrown"} => ~browserInstance

\* C20 witness: execute threw out of the loop for a URL on which Puppeteer was used,
\* and no browser is held
Wit_C20_ThrownAfterPuppeteer ==
    /\ ex.pc = "thrown"
    /\ ex.i > 0
    /\ "puppeteer" \in net.call
    /\ ~browserInstance

\* C21: every item execute pushes for a URL, from whatever handler and on whatever
\* path, carries a success flag, and an item with success = false carries an error
\* string that is not empty
Thm_C21_FailureCarriesError ==
    ex.last # ReturnItem(NoResultJson) =>
        /\ ex.last.success \in BOOLEAN
        /\ ~ex.last.success => ex.last.error # ""

\* C21 witness: the catch block pushed its failure item, the one item that is not
\* built by a handler
Wit_C21_CatchItemPushed ==
    /\ batch.continueOnFail
    /\ ex.last # ReturnItem(NoResultJson)
    /\ ~ex.last.success
    /\ ex.last.meta = {}

\* C22: execute emits exactly one item for each URL of each input item, in the order
\* of the input: the processing of an entry of 'urls' ends with the push of one
\* item for that URL, before the next entry or the next item is taken
Claim_C22_OneItemPerUrlInOrder ==
    [][(ex.pc \in {"awaitDetected", "awaitFallback"}
        /\ ex'.pc \notin {"awaitDetected", "awaitFallback"})
       => /\ ex'.pc = "url" /\ ex'.i = ex.i /\ ex'.u = ex.u
          /\ ex'.last # ReturnItem(NoResultJson)
          /\ ex'.last.url = ex.url]_vars

\* C25: every network call made during execute carries a timeout: none of them,
\* the detection of the operation by the LLM included, is awaited for ever
Claim_C25_NoCallBlocksForEver ==
    ex.pc # "blocked"

\* C27: for one URL processUrl is called at most twice: for the detected operation
\* and, only when that failed, for its fallbacks in their order; a fallback that
\* failed is not followed by fallbacks of its own
Thm_C27_SingleLevelFallback ==
    /\ Len(ex.calls) <= 2
    /\ ex.calls # <<>> => ex.calls[1] = ex.operation
    /\ ex.pc = "awaitDetected" => Len(ex.calls) = 1
    /\ ex.pc = "awaitFallback" =>
        /\ ~ex.result.success
        /\ ex.calls \o ex.fallbacks = <<ex.operation>> \o getFallbackOperations(ex.operation)
    /\ ex.pc \in {"item", "url", "returned"} => ex.calls = <<>>

\* C27 witness: the detected operation failed and its fallback has now failed as
\* well; no operation is left to call for the URL
Wit_C27_FallbackFailedToo ==
    /\ ex.pc = "awaitFallback"
    /\ op.pc = "returned" /\ ~op.result.success
    /\ Len(ex.calls) = 2
    /\ ex.fallbacks = <<>>

\* the stages of handleFetchContent in the order of their cost; the two requests of
\* the OpenAI-compatible LLM stage follow each other
StageRank(pc) ==
    CASE pc = "http" -> 1
      [] pc = "flaresolverr" -> 2
      [] pc = "puppeteer" -> 3
      [] pc = "bm25" -> 4
      [] pc = "openaiContacts" -> 5
      [] pc = "crawl4aiLlm" -> 5
      [] pc = "openaiExtract" -> 6
      [] OTHER -> 0

Thm_C28_LlmCallsCounted ==
    /\ llmCalls = agentLog.llmRequests
    /\ totalCost = llmCalls * CostPerCall
    /\ llmCalls <= maxIterations + 1
    /\ agentResult.returned =>
        /\ agentResult.llmCalls = agentLog.llmRequests
        /\ agentResult.estimatedCost = agentResult.llmCalls * CostPerCall

\* C28 witness: the run returned after an empty complete in its last iteration:
\* every iteration called the LLM, and so did the forced synthesis
Wit_C28_EveryCallAndSynthesis ==
    /\ agentResult.returned
    /\ agentLog.completeCalls = 1
    /\ agentLog.loopCalls = maxIterations
    /\ agentResult.llmCalls = maxIterations + 1

\* C29: the prompt of an iteration holds the final-iteration instruction exactly when
\* the iteration is the last one, iteration = maxIterations, whatever maxIterations
\* is configured
Claim_C29_FinalInstructionOnLastIteration ==
    agentPc = "callLLM" =>
        (agentLog.guidance = "FINAL ITERATION" <=> iteration = maxIterations)

\* C30: whatWasTried names the methods that were attempted on the content, in the
\* order of the attempts and once each, the page title first, whatever the outcome
\* and also for screenshot and download tasks
Claim_C30_WhatWasTriedInOrder ==
    ext.pc = "done" =>
        LET tried == ext.result.whatWasTried
            attempted == ExtractByDetectedIntent(ext.content, detectIntent(ext.task)).tried
        IN  /\ tried = attempted
            /\ tried # <<>> /\ tried[1] = "page_title_extraction"
            /\ \A i, j \in 1..Len(tried) : tried[i] = tried[j] => i = j

\* C23: the products extractProductsFromHtml returns are deduplicated by their
\* url: no two of them have the same url, also when the hrefs of the page are
\* relative and a base URL is given, and when nested elements match one selector
Claim_C23_ProductsDeduplicatedByUrl ==
    pr.pc = "returned" =>
        \A i, j \in DOMAIN pr.products :
            pr.products[i].url = pr.products[j].url => i = j

Claim_C31_AtMostMaxProducts ==
    cp.pc = "returned" => Len(cp.result.products) <= MAX_PRODUCTS

\* C32: crawlForContact stops as soon as the required data is found: while every
\* contact type the intent requests has a collected value, no handleFetchContent
\* call of the crawl is in flight, and the crawler is asked for candidates only
\* after a direct attempt that found nothing
Thm_C32_NoFetchOnceFound ==
    /\ (fc.pc # "idle" /\ fc.caller \in {"contactUrls", "candidates"})
            => ~(/\ cr.intent.wantsEmail => Len(cr.allEmails) > 0
                 /\ cr.intent.wantsPhone => Len(cr.allPhones) > 0)
    /\ (cr.pc = "crawl" /\ (cr.intent.wantsEmail \/ cr.intent.wantsPhone))
            => ~cr.quickResult.success

\* the direct attempt found an address and handleCrawl returned it without asking
\* the crawler
Wit_C32_ReturnedFromDirectAttempt ==
    /\ op.pc = "returned"
    /\ op.operation = "crawl"
    /\ op.result.success
    /\ op.result.data.emails # <<>>
    /\ "usedCrawl4ai" \notin op.result.meta
    /\ "crawl4ai-crawl" \notin net.call

\* C33: in a contact crawl whose intent requests both email and phone, when the
\* inspected page holds an address and a number, both are collected and the crawl
\* stops after that page
Claim_C33_BothCollectedAndStopped ==
    (/\ ins.pc = "collected"
     /\ ins.c.intent.wantsEmail /\ ins.c.intent.wantsPhone
     /\ ins.page.emails # <<>> /\ ins.page.phones # <<>>)
        => /\ ins.next.kind = "return"
           /\ ins.next.result.success
           /\ ins.next.result.data.emails # <<>>
           /\ ins.next.result.data.phones # <<>>

\* C34: under concurrent runs getBrowser launches at most one browser while none
\* is connected, no launched browser is lost (a connected browser is the one
\* browserInstance holds), and when every run has called closeBrowser no browser
\* is left connected
Claim_C34_OneBrowserNoLostHandle ==
    /\ Cardinality({r \in Runs : br.runs[r].pc = "launching"}) <= 1
    /\ br.open \subseteq {br.instance}
    /\ (\A r \in Runs : br.runs[r].pc = "done") => br.open = {}

\* C35: the closeBrowser of one run never closes a browser on which another run
\* has a page operation in flight
Claim_C35_CloseSparesOtherRuns ==
    \A r \in Runs :
        br.runs[r].pc = "page" =>
            ~\E q \in Runs \ {r} : <<br.runs[r].browser, q>> \in br.closedBy

\* C36: every entry of the accumulated-content map is a successful acquisition,
\* so a scrape_url answered from the map returns content whose success flag is
\* true, the seeded initial URL included
Claim_C36_MapHoldsSuccessfulContent ==
    /\ \A i \in 1..Len(accumulatedContent) : accumulatedContent[i].success
    /\ (agentLog.lastTool.tool = "scrape_url" /\ agentLog.lastTool.alreadyScraped)
            => \A i \in 1..Len(accumulatedContent) :
                    accumulatedContent[i].url = agentLog.lastTool.url
                        => accumulatedContent[i].success

\* C37: within one acquireContent call each transport is attempted at most once,
\* for every preferredMethod, skip flags and proxy configuration
Claim_C37_EachTransportOnce ==
    \A i, j \in 1..Len(acq.tried) :
        acq.tried[i].method = acq.tried[j].method => i = j

\* C38: no agent tool hands a URL that validateUrl rejects to an external
\* service: crawl4aiCrawl, which posts every URL that new URL() parses, is awaited
\* by crawl_links for validated URLs only
Claim_C38_CrawlerGetsValidatedUrls ==
    (agentPc = "crawl4ai" /\ toolCall.url.wellFormed) => validateUrl(toolCall.url).valid

\* C39: within one crawl operation the contact pipeline fetches each page URL at
\* most once.  The direct attempt returns to handleCrawl without success only
\* after it fetched every conventional contact URL, so the crawlForContact call
\* that follows the crawler (quick is false) fetches none of them again
Claim_C39_ContactUrlFetchedOnce ==
    (fc.pc # "idle" /\ fc.caller = "contactUrls") => cr.quick

====
